---- MODULE Spec2Model ----
(***************************************************************************)
(* Product consistency verification of gtrackAgent: the per-product       *)
(* aggregator of getAllProducts (controllers/productControllerV5), the     *)
(* filename image analyzer, the Clarifai image verification and the batch  *)
(* fan-out with Promise.all.                                               *)
(*                                                                         *)
(* Free text (product name, brand, GPC/brick label, unit code, image file  *)
(* name) is represented by the predicates the code evaluates on it: a      *)
(* product is a record of the truth values and small enumerations that the *)
(* conditions of the code read.  Combinations the code cannot produce are  *)
(* excluded where the source makes them impossible.                        *)
(***************************************************************************)
EXTENDS Integers, Sequences, FiniteSets, TLC

\* ------------------------------------------------------------------ bounds
MaxProducts == 2

\* --------------------------------------------------------------- constants
InitialScore == 100
InitialConfidence == 95

\* confidence values classifyProductType can return, rounded: score/3*100 for
\* scores 1, 1.5, 2, 2.5 (0 is returned with category null)
Confidences == {33, 50, 67, 83}
\* expectedUnit of the classifier ("none" models null)
ExpectedUnits == {"none", "volume"}
\* inferUnitType(unitData) ("null" models a unit that the bulk lookup missed)
UnitTypes == {"null", "volume", "weight"}
ClarifaiOutcomes == {"match", "mismatch", "error"}

RequiredFields == <<"front_image", "BrandName", "gpc", "unit">>

\* ------------------------------------------------------------- the product
\* Fields of a product record:
\*   front_image, BrandName, gpc, unit : the field is truthy
\*   nameOil, nameFood   : productnameenglish contains 'oil' / 'food'
\*   unitType            : inferUnitType(unitData), "null" when unitData is absent
\*   compatible          : checkBrickUnitCompatibility(...).compatible
\*   category, confidence, expectedUnit : result of classifyProductType
\*   gpcConsistent       : gpcLower includes the detected category
\*   keywordMismatch     : both keyword category lists non-empty and no match
\*   oilSpecial          : isOilProduct && isOilGpc
\*   imgCategory         : analyzeProductImage detects a category from metadata
\*   imgMatch            : imageCategoryMatchScore > 0
\*   contentDetected     : possibleContentCategories is non-empty
\*   incompatible        : some detected content is in incompatibleContent
\*   imgUnitValid        : the unit contains one of the category's validUnits
\*   formatOk            : file extension is jpg, png or webp
\* cv is a classifier verdict and iv an analyzer input, as listed below
MkProduct(img, brand, gpc, unit, nOil, nFood, compat, cv, iv) ==
  [front_image |-> img, BrandName |-> brand, gpc |-> gpc, unit |-> unit,
   nameOil |-> nOil, nameFood |-> nFood, compatible |-> compat,
   category |-> cv[1], confidence |-> cv[2], expectedUnit |-> cv[3],
   gpcConsistent |-> cv[4], keywordMismatch |-> cv[5], oilSpecial |-> cv[6],
   unitType |-> cv[7],
   imgCategory |-> iv[1], imgMatch |-> iv[2], contentDetected |-> iv[3],
   incompatible |-> iv[4], imgUnitValid |-> iv[5], formatOk |-> iv[6]]

\* the classifier verdicts <<category, confidence, expectedUnit, gpcConsistent,
\* keywordMismatch, oilSpecial, unitType>> possible for a product; the classifier
\* is only called when brand and gpc are present.  A name containing 'oil' or
\* 'food' scores at least 1.5 for its category, so the confidence is at least
\* 50.  An expected unit needs an n-gram, contextual or special-case hit (score
\* >= 2).  isOilProduct && isOilGpc puts 'oil' in both keyword lists, so it
\* excludes a keyword mismatch.  unitType is only read when an expected unit is
\* compared with it, and only a present unit can have unitData.
ClassifierVerdicts(brand, gpc, unit, nOil, nFood) ==
  IF ~(brand /\ gpc) THEN {<<FALSE, 0, "none", TRUE, FALSE, FALSE, "null">>}
  ELSE
    (IF nOil \/ nFood THEN {}
     ELSE {<<c[1], c[2], "none", TRUE, k[1], k[2], "null">> :
             c \in {<<FALSE, 0>>, <<TRUE, 33>>},
             k \in {<<FALSE, FALSE>>, <<TRUE, FALSE>>, <<FALSE, TRUE>>}})
    \cup {v \in {<<TRUE, cf, eu, cons, FALSE, FALSE, ut>> :
                   cf \in Confidences, eu \in ExpectedUnits, cons \in BOOLEAN,
                   ut \in UnitTypes} :
            /\ v[2] >= 50
            /\ (v[3] # "none" => v[2] >= 67)
            /\ (v[7] # "null" => (unit /\ v[3] # "none"))}

\* the analyzer inputs <<imgCategory, imgMatch, contentDetected, incompatible,
\* imgUnitValid, formatOk>> possible for a product; the analyzer only runs when
\* front_image is present.  'oil' and 'food' are keywords of its category table;
\* an absent unit ('' after lowercasing) contains no valid unit; detected
\* content is only read when nothing matched the category.
ImageInputs(img, unit, nOil, nFood) ==
  IF ~img THEN {<<FALSE, FALSE, FALSE, FALSE, TRUE, TRUE>>}
  ELSE
    {x \in {<<TRUE, m, d, i, u, f>> :
              m \in BOOLEAN, d \in BOOLEAN, i \in BOOLEAN,
              u \in (IF unit THEN BOOLEAN ELSE {FALSE}), f \in BOOLEAN} :
       /\ x[4] => x[3]
       /\ x[2] => ~x[3]}
    \cup (IF nOil \/ nFood THEN {}
          ELSE {<<FALSE, FALSE, d, FALSE, TRUE, TRUE>> : d \in BOOLEAN})

\* every product the model distinguishes
Products ==
  UNION {{MkProduct(img, brand, gpc, unit, nOil, nFood, compat, cv, iv) :
            compat \in (IF gpc /\ unit THEN BOOLEAN ELSE {TRUE}),
            cv \in ClassifierVerdicts(brand, gpc, unit, nOil, nFood),
            iv \in ImageInputs(img, unit, nOil, nFood)} :
          img \in BOOLEAN, brand \in BOOLEAN, gpc \in BOOLEAN,
          unit \in BOOLEAN, nOil \in BOOLEAN, nFood \in BOOLEAN}

\* ------------------------------------------------- the image analyzer
Issue(rule, severity) == [rule |-> rule, severity |-> severity]
Suggestion(field, importance, text) ==
  [field |-> field, importance |-> importance, text |-> text]
ImageIssue(type, severity) == [type |-> type, severity |-> severity]

\* severityWeights[issue.severity]; 0 also models a severity missing from the
\* table (undefined), both are falsy
severityWeights(severity) ==
  CASE severity = "critical" -> 40
    [] severity = "high" -> 25
    [] severity = "medium" -> 15
    [] severity = "low" -> 5
    [] severity = "info" -> 0
    [] OTHER -> 0

\* severityWeights[issue.severity] || 10
SeverityWeight(severity) ==
  IF severityWeights(severity) # 0 THEN severityWeights(severity) ELSE 10

RECURSIVE ConfidenceReduction(_)
ConfidenceReduction(issues) ==
  IF issues = <<>> THEN 0
  ELSE SeverityWeight(Head(issues).severity) + ConfidenceReduction(Tail(issues))

Max(a, b) == IF a >= b THEN a ELSE b

\* the content branch of the analyzer, taken when a category was detected
ContentIssues(p) ==
  IF p.imgMatch THEN <<>>
  ELSE IF p.contentDetected
       THEN IF p.incompatible
            THEN <<ImageIssue("content_type_mismatch", "critical")>>
            ELSE <<ImageIssue("ambiguous_image_content", "warning")>>
       ELSE <<ImageIssue("undetermined_image_content", "info")>>

ContentConsistency(p) ==
  IF p.imgCategory
  THEN IF p.imgMatch THEN "consistent"
       ELSE IF p.contentDetected
            THEN IF p.incompatible THEN "inconsistent" ELSE "ambiguous"
            ELSE "undetermined"
  ELSE IF p.contentDetected THEN "indeterminate" ELSE "unknown"

\* mutant: the ambiguous branch also sets result.isValid = false
ContentInvalidAlsoAmbiguous(p) == ~p.imgMatch /\ p.contentDetected

\* whether the content branch sets result.isValid = false
ContentInvalid(p) == ~p.imgMatch /\ p.contentDetected /\ p.incompatible

analyzeProductImage(p) ==
  IF ~p.front_image
  THEN [isValid |-> FALSE, contentConsistency |-> "unknown",
        issues |-> <<ImageIssue("invalid_url", "critical")>>, confidence |-> 0]
  ELSE
    LET issues ==
          IF p.imgCategory
          THEN ContentIssues(p)
               \o (IF ~p.imgUnitValid
                   THEN <<ImageIssue("unit_mismatch", "high")>> ELSE <<>>)
               \o (IF ~p.formatOk
                   THEN <<ImageIssue("image_format_warning", "low")>> ELSE <<>>)
          ELSE IF p.contentDetected
               THEN <<ImageIssue("content_category_mismatch", "high")>>
               ELSE <<ImageIssue("insufficient_metadata", "medium")>>
        valid ==
          IF p.imgCategory
          THEN ~ContentInvalid(p) /\ p.imgUnitValid
          ELSE ~p.contentDetected
    IN [isValid |-> valid,
        contentConsistency |-> ContentConsistency(p),
        issues |-> issues,
        confidence |-> IF issues = <<>> THEN 70
                       ELSE Max(0, 100 - ConfidenceReduction(issues))]

\* ------------------------------------------- the Clarifai verification
\* verifyClarifaiImage for a present image: the prediction either yields a score
\* (>= 0.65 is a match) or throws, and the catch returns a result without
\* expectedConcepts and detectedConcepts
verifyClarifaiImage(outcome) ==
  [valid |-> (outcome = "match"),
   failed |-> (outcome = "error"),
   hasConcepts |-> (outcome # "error")]

\* ------------------------------------------------------ the aggregator
\* const verification = {...}: the object each task creates for its product
InitialVerification ==
  [isValid |-> TRUE,
   verificationScore |-> InitialScore,
   confidenceLevel |-> InitialConfidence,
   verificationStatus |-> "verified",
   issues |-> <<>>,
   missingFields |-> <<>>,
   aiSuggestions |-> <<>>,
   imageAnalysis |-> "none",
   clarifaiVerification |-> "none",
   positivePoints |-> 0]

\* verification.isValid = false; verification.verificationStatus = 'unverified'
MarkUnverified(v) ==
  [v EXCEPT !.isValid = FALSE, !.verificationStatus = "unverified"]

RequiredRule(field) ==
  CASE field = "front_image" -> "Required Image"
    [] field = "BrandName" -> "Required Brand"
    [] field = "gpc" -> "Required GPC"
    [] field = "unit" -> "Required Unit"

\* mutant: a missing field is reported but the status is left alone
RequireFieldKeepsStatus(v, p, field) ==
  IF p[field] THEN v
  ELSE [v EXCEPT
          !.missingFields = Append(@, field),
          !.issues = Append(@, Issue(RequiredRule(field), "critical")),
          !.aiSuggestions = Append(@, Suggestion(field, "Critical", "required"))]

\* one 'if (!product.<field>)' block of RULE 1
RequireField(v, p, field) ==
  IF p[field] THEN v
  ELSE [MarkUnverified(v) EXCEPT
          !.missingFields = Append(@, field),
          !.issues = Append(@, Issue(RequiredRule(field), "critical")),
          !.aiSuggestions = Append(@, Suggestion(field, "Critical", "required"))]

\* mutant: the blocks chained with else-if, so only the first absence is reported
RequiredFieldsCheckFirstOnly(v, p) ==
  IF ~p.front_image THEN RequireField(v, p, "front_image")
  ELSE IF ~p.BrandName THEN RequireField(v, p, "BrandName")
  ELSE IF ~p.gpc THEN RequireField(v, p, "gpc")
  ELSE RequireField(v, p, "unit")

\* RULE 1: the four blocks in source order
RequiredFieldsCheck(v, p) ==
  RequireField(RequireField(RequireField(RequireField(v, p, "front_image"),
                                         p, "BrandName"), p, "gpc"), p, "unit")

\* parsedUnit.type: parseUnit returns null only for an absent unit
ParsedUnitType(p) ==
  IF ~p.unit THEN "null"
  ELSE IF p.unitType # "null" THEN p.unitType ELSE "fromCode"

\* mutant: the check is skipped when the unit row was not found
CompatibilityCheckNeedsUnitRow(v, p) ==
  IF p.gpc /\ p.unit /\ p.unitType # "null"
  THEN IF ~p.compatible
       THEN [MarkUnverified(v) EXCEPT
               !.issues = Append(@, Issue("GPC-Unit Compatibility", "high")),
               !.aiSuggestions =
                  Append(@, Suggestion("unit", "High", "incompatible_unit"))]
       ELSE v
  ELSE v

\* GPC and unit compatibility
CompatibilityCheck(v, p) ==
  IF p.gpc /\ p.unit /\ ParsedUnitType(p) # "null"
  THEN IF ~p.compatible
       THEN [MarkUnverified(v) EXCEPT
               !.issues = Append(@, Issue("GPC-Unit Compatibility", "high")),
               !.aiSuggestions =
                  Append(@, Suggestion("unit", "High", "incompatible_unit"))]
       ELSE v
  ELSE v

\* getDirectGpcSuggestions: the prefetched titles of the category, else the
\* fallback list
getDirectGpcSuggestions(gpcClasses, p) ==
  IF gpcClasses THEN "prefetched_titles" ELSE "fallback_titles"

\* RULE 2, category part: the keyword comparison when the classifier found
\* nothing or has low confidence, else the classifier's category against the GPC
CategoryCheck(v, p, gpcClasses) ==
  IF p.BrandName /\ p.gpc
  THEN IF ~p.category \/ p.confidence < 50
       THEN IF p.keywordMismatch /\ ~p.oilSpecial
            THEN [MarkUnverified(v) EXCEPT
                    !.issues = Append(@, Issue("Category Match", "high")),
                    !.aiSuggestions =
                       Append(@, Suggestion("gpc", "High", "keyword_comparison"))]
            ELSE v
       ELSE IF ~p.gpcConsistent /\ p.confidence > 70
            THEN [MarkUnverified(v) EXCEPT
                    !.issues = Append(@, Issue("Category Match", "high")),
                    !.aiSuggestions =
                       Append(@, Suggestion("gpc", "High",
                                            getDirectGpcSuggestions(gpcClasses, p)))]
            ELSE v
  ELSE v

\* RULE 2, unit part: only in the branch that uses the classifier's verdict
UnitCategoryCheck(v, p) ==
  IF /\ p.BrandName /\ p.gpc
     /\ ~(~p.category \/ p.confidence < 50)
     /\ p.expectedUnit # "none"
     /\ p.unitType # "null"
     /\ p.unitType # p.expectedUnit
  THEN [MarkUnverified(v) EXCEPT
          !.issues = Append(@, Issue("Unit Compatibility", "high")),
          !.aiSuggestions =
             Append(@, Suggestion("unit", "High", "recommended_units"))]
  ELSE v

\* general suggestion for an unverified product without suggestions
GeneralSuggestion(v, p) ==
  IF v.verificationStatus = "unverified" /\ Len(v.aiSuggestions) = 0
  THEN [v EXCEPT !.aiSuggestions =
                    Append(@, Suggestion("general", "Medium", "review"))]
  ELSE v

\* industry-specific tips
EnhancementTips(v, p) ==
  LET v1 == IF p.nameOil /\ v.isValid
            THEN [v EXCEPT !.aiSuggestions =
                    Append(@, Suggestion("enhancementTip", "Low", "oil"))]
            ELSE v
  IN IF p.nameFood /\ v1.isValid
     THEN [v1 EXCEPT !.aiSuggestions =
             Append(@, Suggestion("enhancementTip", "Low", "food"))]
     ELSE v1

Importance(severity) ==
  CASE severity = "critical" -> "Critical"
    [] severity = "high" -> "High"
    [] severity = "medium" -> "Medium"
    [] OTHER -> "Low"

MapIssues(issues) ==
  [k \in 1..Len(issues) |-> Issue("Image Analysis", issues[k].severity)]
MapSuggestions(issues) ==
  [k \in 1..Len(issues) |->
     Suggestion("front_image", Importance(issues[k].severity), issues[k].type)]

\* filename image analysis
ImageAnalysisCheck(v, p) ==
  IF p.front_image
  THEN LET imageAnalysis == analyzeProductImage(p)
           v1 == IF ~imageAnalysis.isValid
                 THEN [MarkUnverified(v) EXCEPT
                         !.issues = @ \o MapIssues(imageAnalysis.issues),
                         !.aiSuggestions =
                            @ \o MapSuggestions(imageAnalysis.issues)
                              \o (IF \E k \in 1..Len(imageAnalysis.issues) :
                                       imageAnalysis.issues[k].type =
                                         "content_type_mismatch"
                                  THEN <<Suggestion("general", "Critical",
                                                    "inappropriate_image")>>
                                  ELSE <<>>)]
                 ELSE v
       IN [v1 EXCEPT !.imageAnalysis = imageAnalysis.contentConsistency]
  ELSE v

\* the continuation after 'await verifyClarifaiImage(...)': building the
\* suggestion reads expectedConcepts.slice, which throws on the result of a
\* failed call; the catch block logs and verification keeps what was written
ClarifaiCheck(v, p, outcome) ==
  LET clarifaiVerification == verifyClarifaiImage(outcome)
      v1 == [v EXCEPT !.clarifaiVerification = outcome]
  IN IF ~clarifaiVerification.valid
     THEN LET v2 == [MarkUnverified(v1) EXCEPT
                       !.issues =
                          Append(@, Issue("Image Content Verification", "high"))]
          IN IF clarifaiVerification.hasConcepts
             THEN [v2 EXCEPT !.aiSuggestions =
                     Append(@, Suggestion("front_image", "High", "image_mismatch"))]
             ELSE v2
     ELSE [v1 EXCEPT !.positivePoints = @ + 1]

\* ------------------------------------------------------------- text
\* Strings of the program are TLA+ strings; null and undefined text is "".
UpperCase == "ABCDEFGHIJKLMNOPQRSTUVWXYZ"
LowerCase == "abcdefghijklmnopqrstuvwxyz"
Digits == "0123456789"

CharAt(s, i) == IF i >= 1 /\ i <= Len(s) THEN SubSeq(s, i, i) ELSE ""
CharIn(c, alphabet) == c # "" /\ \E k \in 1..Len(alphabet) : SubSeq(alphabet, k, k) = c
IndexIn(c, alphabet) == CHOOSE k \in 1..Len(alphabet) : SubSeq(alphabet, k, k) = c

\* String.prototype.toLowerCase / toUpperCase
RECURSIVE MapCase(_, _, _)
MapCase(s, from, to) ==
  IF s = "" THEN ""
  ELSE LET c == SubSeq(s, 1, 1)
       IN (IF CharIn(c, from) THEN CharAt(to, IndexIn(c, from)) ELSE c)
            \o MapCase(SubSeq(s, 2, Len(s)), from, to)
ToLower(s) == MapCase(s, UpperCase, LowerCase)
ToUpper(s) == MapCase(s, LowerCase, UpperCase)

\* String.prototype.includes
Includes(s, pat) ==
  \E i \in 1..(Len(s) - Len(pat) + 1) : SubSeq(s, i, i + Len(pat) - 1) = pat

\* String.prototype.indexOf, 1-based, 0 when absent
IndexOf(s, pat) ==
  IF Includes(s, pat)
  THEN CHOOSE i \in 1..(Len(s) - Len(pat) + 1) :
         /\ SubSeq(s, i, i + Len(pat) - 1) = pat
         /\ \A j \in 1..(i - 1) : SubSeq(s, j, j + Len(pat) - 1) # pat
  ELSE 0
LastIndexOf(s, pat) ==
  IF Includes(s, pat)
  THEN CHOOSE i \in 1..(Len(s) - Len(pat) + 1) :
         /\ SubSeq(s, i, i + Len(pat) - 1) = pat
         /\ \A j \in (i + 1)..(Len(s) - Len(pat) + 1) :
              SubSeq(s, j, j + Len(pat) - 1) # pat
  ELSE 0

IsSpace(c) == c = " "
IsDigit(c) == CharIn(c, Digits)
\* \w of a regular expression
IsWordChar(c) == CharIn(c, LowerCase) \/ CharIn(c, UpperCase) \/ IsDigit(c) \/ c = "_"

\* String.prototype.trim
RECURSIVE TrimLeft(_)
TrimLeft(s) == IF s # "" /\ IsSpace(CharAt(s, 1)) THEN TrimLeft(SubSeq(s, 2, Len(s))) ELSE s
RECURSIVE TrimRight(_)
TrimRight(s) ==
  IF s # "" /\ IsSpace(CharAt(s, Len(s))) THEN TrimRight(SubSeq(s, 1, Len(s) - 1)) ELSE s
Trim(s) == TrimRight(TrimLeft(s))

\* s.split(separators) without its empty pieces; seps is a string of the
\* separator characters
RECURSIVE Tokens(_, _)
Tokens(s, seps) ==
  IF s = "" THEN <<>>
  ELSE IF CharIn(CharAt(s, 1), seps) THEN Tokens(SubSeq(s, 2, Len(s)), seps)
  ELSE LET stops == {i \in 1..Len(s) : CharIn(CharAt(s, i), seps)}
           end == IF stops = {} THEN Len(s) + 1
                  ELSE CHOOSE i \in stops : \A j \in stops : i <= j
       IN <<SubSeq(s, 1, end - 1)>> \o Tokens(SubSeq(s, end, Len(s)), seps)

\* \b of a regular expression: between position i-1 and position i of s
Boundary(s, i) == IsWordChar(CharAt(s, i - 1)) # IsWordChar(CharAt(s, i))

\* /\bw\b/ matches at position i
WordAt(s, i, w) ==
  /\ i + Len(w) - 1 <= Len(s)
  /\ SubSeq(s, i, i + Len(w) - 1) = w
  /\ Boundary(s, i)
  /\ Boundary(s, i + Len(w))

\* /\b(w1|w2|...)\b/.test(s)
HasWord(s, words) == \E w \in words : \E i \in 1..Len(s) : WordAt(s, i, w)

\* /\b(a1|a2|...)\b.*\b(b1|b2|...)\b/.test(s)
WordBeforeWord(s, first, second) ==
  \E a \in first, b \in second :
    \E i \in 1..Len(s) :
      /\ WordAt(s, i, a)
      /\ \E j \in (i + Len(a))..Len(s) : WordAt(s, j, b)

\* /(a1|a2|...)\s+(b1|b2|...)/.test(s): no word boundaries
WordSpaceWord(s, first, second) ==
  \E a \in first, b \in second :
    \E i \in 1..Len(s) :
      /\ i + Len(a) - 1 <= Len(s)
      /\ SubSeq(s, i, i + Len(a) - 1) = a
      /\ \E j \in (i + Len(a) + 1)..Len(s) :
           /\ \A k \in (i + Len(a))..(j - 1) : IsSpace(CharAt(s, k))
           /\ j + Len(b) - 1 <= Len(s)
           /\ SubSeq(s, j, j + Len(b) - 1) = b

\* the digits of s from position i on: the position after the last of them
RECURSIVE DigitsEnd(_, _)
DigitsEnd(s, i) == IF IsDigit(CharAt(s, i)) THEN DigitsEnd(s, i + 1) ELSE i

\* /\b\d+w\d+\b/i.test(s) for a lower-case s: \d+ is greedy but may give digits
\* back, which never helps here because a digit is a word character
HasViscosityGrade(s) ==
  \E i \in 1..Len(s) :
    /\ Boundary(s, i)
    /\ LET k == DigitsEnd(s, i)
       IN /\ k > i
          /\ CharAt(s, k) = "w"
          /\ LET e == DigitsEnd(s, k + 1)
             IN e > k + 1 /\ Boundary(s, e)

\* ------------------------------------------------------------- units
\* a row of the Units table, or no row (unitData is null or undefined)
UnitData(code, name) == [found |-> TRUE, unit_code |-> code, unit_name |-> name]
NoUnitData == [found |-> FALSE, unit_code |-> "", unit_name |-> ""]

\* unitTypePatterns, in the order of Object.entries
unitTypePatterns ==
  <<[type |-> "rate",
     patterns |-> {"per", "perhour", "persecond", "perminute", "ph", "ps", "pm",
                   "hz", "rpm", "sps", "mps", "fps", "m60"}],
    [type |-> "volume",
     patterns |-> {"l", "ml", "liter", "litre", "gallon", "oz", "fluid", "ltr",
                   "fl", "cl", "dl", "pt", "qt", "gal"}],
    [type |-> "weight",
     patterns |-> {"kg", "g", "mg", "lb", "pound", "ton", "gram", "kilo", "oz",
                   "ounce", "t"}],
    [type |-> "quantity",
     patterns |-> {"pc", "piece", "unit", "each", "item", "count", "ea", "pcs",
                   "pair", "set", "pack", "pkg"}],
    [type |-> "length",
     patterns |-> {"m", "cm", "mm", "ft", "inch", "yard", "metre", "meter", "in",
                   "yd", "km", "mi", "mile"}],
    [type |-> "area",
     patterns |-> {"m2", "sqm", "sq m", "square meter", "ha", "acre", "sqft",
                   "sq ft", "square foot"}]>>

unitCodeMap ==
  [c \in {"kg", "g", "mg", "lb", "oz", "l", "ml", "ltr", "pc", "ea", "m", "cm",
          "mm", "ft", "in", "m2", "ha"} |->
     CASE c \in {"kg", "g", "mg", "lb", "oz"} -> "weight"
       [] c \in {"l", "ml", "ltr"} -> "volume"
       [] c \in {"pc", "ea"} -> "quantity"
       [] c \in {"m", "cm", "mm", "ft", "in"} -> "length"
       [] c \in {"m2", "ha"} -> "area"]

\* patterns.some(pattern => unitName.includes(pattern) || unitCode.includes(pattern))
MatchesUnitPatterns(unitName, unitCode, patterns) ==
  \E pattern \in patterns : Includes(unitName, pattern) \/ Includes(unitCode, pattern)

Least(S) == CHOOSE k \in S : \A j \in S : k <= j

\* the types of unitTypePatterns with a pattern that is a substring of the name
\* or of the code, by position; length is skipped for a rate
UnitTypeHits(unitName, unitCode) ==
  {k \in 1..Len(unitTypePatterns) :
     /\ MatchesUnitPatterns(unitName, unitCode, unitTypePatterns[k].patterns)
     /\ ~(unitTypePatterns[k].type = "length"
          /\ MatchesUnitPatterns(unitName, unitCode, unitTypePatterns[1].patterns))}

\* mutant: unitCodeMap is consulted before the patterns
UnitTypeOfHitsTableFirst(hits, unitName, unitCode) ==
  IF unitName = "" /\ unitCode = "" THEN "unknown"
  ELSE IF unitCode \in DOMAIN unitCodeMap THEN unitCodeMap[unitCode]
  ELSE IF hits # {} THEN unitTypePatterns[Least(hits)].type
  ELSE "unknown"

\* the first type that matched, then unitCodeMap, then 'unknown'
UnitTypeOfHits(hits, unitName, unitCode) ==
  IF unitName = "" /\ unitCode = "" THEN "unknown"
  ELSE IF hits # {} THEN unitTypePatterns[Least(hits)].type
  ELSE IF unitCode \in DOMAIN unitCodeMap THEN unitCodeMap[unitCode]
  ELSE "unknown"

InferFromText(unitName, unitCode) ==
  UnitTypeOfHits(UnitTypeHits(unitName, unitCode), unitName, unitCode)

\* inferUnitType(unitData): the first type of unitTypePatterns with a pattern that
\* is a substring of the name or of the code; "null" models null
inferUnitType(unitData) ==
  IF ~unitData.found THEN "null"
  ELSE InferFromText(ToLower(unitData.unit_name), ToLower(unitData.unit_code))

\* unitNameMap of parseUnit
unitNameMap ==
  [c \in {"KG", "G", "MG", "LB", "OZ", "TON", "L", "LTR", "ML", "CL", "GAL",
          "FLOZ", "FL OZ", "PC", "PCS", "EA", "UNIT", "SET", "PAIR", "EACH",
          "M", "CM", "MM", "FT", "IN", "YD", "M2", "SQM", "SQFT", "ACRE", "HA"} |->
     CASE c = "KG" -> "Kilogram" [] c = "G" -> "Gram" [] c = "MG" -> "Milligram"
       [] c = "LB" -> "Pound" [] c = "OZ" -> "Ounce" [] c = "TON" -> "Ton"
       [] c \in {"L", "LTR"} -> "Liter" [] c = "ML" -> "Milliliter"
       [] c = "CL" -> "Centiliter" [] c = "GAL" -> "Gallon"
       [] c \in {"FLOZ", "FL OZ"} -> "Fluid Ounce"
       [] c = "PC" -> "Piece" [] c = "PCS" -> "Pieces"
       [] c \in {"EA", "EACH"} -> "Each" [] c = "UNIT" -> "Unit"
       [] c = "SET" -> "Set" [] c = "PAIR" -> "Pair"
       [] c = "M" -> "Meter" [] c = "CM" -> "Centimeter" [] c = "MM" -> "Millimeter"
       [] c = "FT" -> "Foot" [] c = "IN" -> "Inch" [] c = "YD" -> "Yard"
       [] c \in {"M2", "SQM"} -> "Square Meter" [] c = "SQFT" -> "Square Foot"
       [] c = "ACRE" -> "Acre" [] c = "HA" -> "Hectare"]

\* the type parseUnit infers from the unit code alone
UnitTypeOfCode(unitCode) ==
  CASE unitCode \in {"KG", "G", "MG", "LB", "OZ", "TON"} -> "weight"
    [] unitCode \in {"L", "LTR", "ML", "CL", "GAL", "FLOZ", "FL OZ"} -> "volume"
    [] unitCode \in {"PC", "PCS", "EA", "UNIT", "SET", "PAIR", "EACH"} -> "quantity"
    [] unitCode \in {"M", "CM", "MM", "FT", "IN", "YD"} -> "length"
    [] unitCode \in {"M2", "SQM", "SQFT", "ACRE", "HA"} -> "area"
    [] OTHER -> "unknown"

\* the fields of parseUnit for the upper-case code
ParsedUnit(unitCode, unitData) ==
  [code |-> unitCode,
   name |-> IF unitData.found /\ unitData.unit_name # ""
            THEN unitData.unit_name
            ELSE IF unitCode \in DOMAIN unitNameMap
                 THEN unitNameMap[unitCode] ELSE "Unit",
   type |-> IF unitData.found THEN inferUnitType(unitData)
            ELSE UnitTypeOfCode(unitCode)]

\* parseUnit(unitString, unitData): code, name and type ("null" for an absent unit)
parseUnit(unitString, unitData) ==
  IF unitString = "" THEN [code |-> "", name |-> "", type |-> "null"]
  ELSE ParsedUnit(ToUpper(Trim(unitString)), unitData)

\* parseBrick(brickString).description ("" models null)
parseBrickDescription(brickString) ==
  IF brickString = "" THEN ""
  ELSE IF Includes(brickString, "-")
       THEN Trim(SubSeq(brickString, IndexOf(brickString, "-") + 1, Len(brickString)))
       ELSE IF IsDigit(CharAt(brickString, 1))
            THEN Trim(SubSeq(brickString, DigitsEnd(brickString, 1), Len(brickString)))
            ELSE brickString

\* parseBrick(brickString).code ("" models null)
parseBrickCode(brickString) ==
  IF brickString = "" THEN ""
  ELSE IF Includes(brickString, "-")
       THEN Trim(SubSeq(brickString, 1, IndexOf(brickString, "-") - 1))
       ELSE IF IsDigit(CharAt(brickString, 1))
            THEN SubSeq(brickString, 1, DigitsEnd(brickString, 1) - 1)
            ELSE ""

\* ------------------------------------------------- the category classifier
\* categoryPatterns: keyword lists in source order (a keyword listed twice counts
\* twice)
categoryPatterns ==
  <<[category |-> "cleaning_product",
     keywords |-> <<"detergent", "washing powder", "cleaner", "soap", "laundry",
                    "bleach", "softener", "stain remover", "dishwasher">>],
    [category |-> "food_product",
     keywords |-> <<"food", "edible", "snack", "meal", "nutrition", "dietary",
                    "eat", "cook", "bake", "breakfast", "dinner", "lunch",
                    "vegetable", "fruit", "meat">>],
    [category |-> "beverage_product",
     keywords |-> <<"drink", "beverage", "water", "juice", "soda", "milk",
                    "coffee", "tea", "alcohol", "wine", "beer", "liquor",
                    "cocktail">>],
    [category |-> "oil_product",
     keywords |-> <<"oil", "lubricant", "petroleum", "engine oil", "motor oil",
                    "fuel", "gas", "diesel", "kerosene", "petroleum">>],
    [category |-> "personal_care",
     keywords |-> <<"shampoo", "conditioner", "lotion", "cream", "deodorant",
                    "perfume", "cologne", "toothpaste", "mouthwash", "makeup",
                    "cosmetic">>],
    [category |-> "electronic_product",
     keywords |-> <<"electronic", "device", "computer", "laptop", "phone",
                    "smartphone", "tablet", "tv", "television", "appliance",
                    "gadget">>],
    [category |-> "clothing_product",
     keywords |-> <<"clothing", "apparel", "wear", "dress", "shirt", "pant",
                    "jean", "sock", "underwear", "jacket", "coat", "shoe">>],
    [category |-> "household_product",
     keywords |-> <<"household", "furniture", "decor", "kitchen", "bathroom",
                    "bedroom", "living room", "table", "chair", "bed", "sofa">>]>>

\* ngramPatterns of classifyProductType, each with weight 2.0
classifierNgrams ==
  <<[ngram |-> "washing powder", category |-> "cleaning_product", expectedUnit |-> "weight"],
    [ngram |-> "laundry detergent", category |-> "cleaning_product", expectedUnit |-> "volume"],
    [ngram |-> "dish soap", category |-> "cleaning_product", expectedUnit |-> "volume"],
    [ngram |-> "motor oil", category |-> "oil_product", expectedUnit |-> "volume"],
    [ngram |-> "engine oil", category |-> "oil_product", expectedUnit |-> "volume"],
    [ngram |-> "transmission fluid", category |-> "oil_product", expectedUnit |-> "volume"],
    [ngram |-> "olive oil", category |-> "food_product", expectedUnit |-> "volume"],
    [ngram |-> "cooking oil", category |-> "food_product", expectedUnit |-> "volume"],
    [ngram |-> "soft drink", category |-> "beverage_product", expectedUnit |-> "volume"],
    [ngram |-> "mobile phone", category |-> "electronic_product", expectedUnit |-> "quantity"],
    [ngram |-> "cell phone", category |-> "electronic_product", expectedUnit |-> "quantity"],
    [ngram |-> "t shirt", category |-> "clothing_product", expectedUnit |-> "quantity"],
    [ngram |-> "coffee machine", category |-> "electronic_product", expectedUnit |-> "quantity"],
    [ngram |-> "coffee maker", category |-> "electronic_product", expectedUnit |-> "quantity"],
    [ngram |-> "facial cream", category |-> "personal_care", expectedUnit |-> "weight"],
    [ngram |-> "body lotion", category |-> "personal_care", expectedUnit |-> "volume"]>>

\* /\bapi\s+(s[lpnmfg]|c[hjk])\b/i.test(text) for a lower-case text
HasApiCategory(text) ==
  \E i \in 1..Len(text) :
    /\ i + 2 <= Len(text)
    /\ SubSeq(text, i, i + 2) = "api"
    /\ Boundary(text, i)
    /\ \E j \in (i + 4)..Len(text) :
         /\ \A k \in (i + 3)..(j - 1) : IsSpace(CharAt(text, k))
         /\ \/ CharAt(text, j) = "s" /\ CharIn(CharAt(text, j + 1), "lpnmfg")
            \/ CharAt(text, j) = "c" /\ CharIn(CharAt(text, j + 1), "hjk")
         /\ Boundary(text, j + 2)

\* the conditions of contextualRules, in source order
AutomotiveOilRule(text) ==
  \/ WordBeforeWord(text, {"engine", "motor", "transmission", "hydraulic"},
                    {"oil", "lubricant"})
  \/ WordBeforeWord(text, {"oil", "lubricant"},
                    {"engine", "motor", "transmission", "hydraulic"})
\* the second alternative, /\b(sae)\b.*\b\d+w\d+\b/, implies the first
ViscosityRule(text) == HasViscosityGrade(text)
ApiRule(text) == HasApiCategory(text)
LaundryRule(text) ==
  \/ WordBeforeWord(text, {"washing", "laundry"}, {"powder", "detergent"})
  \/ WordBeforeWord(text, {"powder", "detergent"}, {"washing", "laundry"})
CookingOilRule(text) ==
  \/ WordBeforeWord(text, {"cooking", "olive", "vegetable", "sunflower", "canola"}, {"oil"})
  \/ WordBeforeWord(text, {"oil"}, {"cooking", "olive", "vegetable", "sunflower", "canola"})

ContextualResult(category, confidence, expectedUnit) ==
  [category |-> category, confidence |-> confidence, expectedUnit |-> expectedUnit,
   detectionMethod |-> "contextual_rule"]

\* the number of indexes of seq whose element passes Test
CountIf(seq, Test(_)) == Cardinality({k \in 1..Len(seq) : Test(seq[k])})

\* the keyword score of one category, in halves: 1.0 for a keyword in the
\* combined text, 0.5 more when the product name has it
KeywordScore(keywords, combinedText, productNameLower) ==
  LET InText(kw) == Includes(combinedText, kw)
      InName(kw) == Includes(combinedText, kw) /\ Includes(productNameLower, kw)
  IN 2 * CountIf(keywords, InText) + CountIf(keywords, InName)

\* the categories of the ngrams found, in the order they enter ngramScore
RECURSIVE NgramOrder(_, _, _)
NgramOrder(k, combinedText, acc) ==
  IF k > Len(classifierNgrams) THEN acc
  ELSE LET g == classifierNgrams[k]
           seen == \E j \in 1..Len(acc) : acc[j] = g.category
       IN NgramOrder(k + 1, combinedText,
                     IF Includes(combinedText, g.ngram) /\ ~seen
                     THEN Append(acc, g.category) ELSE acc)

\* the keys of scores in insertion order: ngram categories, then the keyword
\* categories, then cleaning_product of the washing special case
RECURSIVE KeywordOrder(_, _, _, _)
KeywordOrder(k, combinedText, productNameLower, acc) ==
  IF k > Len(categoryPatterns) THEN acc
  ELSE LET c == categoryPatterns[k]
           seen == \E j \in 1..Len(acc) : acc[j] = c.category
       IN KeywordOrder(k + 1, combinedText, productNameLower,
                       IF KeywordScore(c.keywords, combinedText, productNameLower) > 0
                          /\ ~seen
                       THEN Append(acc, c.category) ELSE acc)

\* productNameLower has 'wash' and one of 'powder', 'detergent', 'soap'
WashingSpecialCase(productNameLower) ==
  /\ Includes(productNameLower, "wash")
  /\ \/ Includes(productNameLower, "powder")
     \/ Includes(productNameLower, "detergent")
     \/ Includes(productNameLower, "soap")

\* Math.min(highestScore / 3 * 100, 100), rounded, for a score in halves
ScoreConfidence(halves) ==
  IF (halves * 100 + 3) \div 6 > 100 THEN 100 ELSE (halves * 100 + 3) \div 6

\* the ngrams of a category that the combined text has, by position
NgramsOf(cat, combinedText) ==
  {k \in 1..Len(classifierNgrams) :
     classifierNgrams[k].category = cat
     /\ Includes(combinedText, classifierNgrams[k].ngram)}

\* scores[cat] in halves: 2.0 for each ngram, the keyword score, 2.0 for the
\* washing special case
CategoryScore(cat, combinedText, productNameLower, special) ==
  4 * Cardinality(NgramsOf(cat, combinedText))
  + KeywordScore(categoryPatterns[CHOOSE k \in 1..Len(categoryPatterns) :
                                    categoryPatterns[k].category = cat].keywords,
                 combinedText, productNameLower)
  + (IF special /\ cat = "cleaning_product" THEN 4 ELSE 0)

\* unitSuggestions[cat]: the unit of the last ngram found for the category,
\* overwritten by the washing special case
UnitSuggestionOf(ngrams, cat, productNameLower, special) ==
  IF special /\ cat = "cleaning_product"
  THEN IF Includes(productNameLower, "powder") THEN "weight" ELSE "volume"
  ELSE IF ngrams # {}
       THEN classifierNgrams[CHOOSE k \in ngrams : \A j \in ngrams : j <= k].expectedUnit
       ELSE "none"

\* the keys of scores with the key the washing special case may add
ScoreKeys(keys0, special) ==
  IF special /\ ~(\E j \in 1..Len(keys0) : keys0[j] = "cleaning_product")
  THEN Append(keys0, "cleaning_product") ELSE keys0

\* the first key with the highest score: the loop replaces on a strictly
\* higher score only
HighestCategory(keys, points) ==
  keys[CHOOSE k \in 1..Len(keys) :
         /\ \A j \in 1..Len(keys) : points[j] <= points[k]
         /\ \A j \in 1..(k - 1) : points[j] < points[k]]

ScoredCategory(cat, combinedText, productNameLower, special) ==
  [category |-> cat,
   confidence |-> ScoreConfidence(CategoryScore(cat, combinedText, productNameLower,
                                                special)),
   expectedUnit |-> UnitSuggestionOf(NgramsOf(cat, combinedText), cat,
                                     productNameLower, special),
   detectionMethod |->
     IF \E k \in 1..Len(classifierNgrams) :
          Includes(combinedText, classifierNgrams[k].ngram)
     THEN "n-gram" ELSE "keyword"]

ScoredFrom(keys, combinedText, productNameLower, special) ==
  IF keys = <<>>
  THEN [category |-> "none", confidence |-> 0, expectedUnit |-> "none",
        detectionMethod |-> "keyword"]
  ELSE ScoredCategory(
         HighestCategory(keys, [j \in 1..Len(keys) |->
                                  CategoryScore(keys[j], combinedText,
                                                productNameLower, special)]),
         combinedText, productNameLower, special)

\* the scoring part of classifyProductType, after no contextual rule matched
ScoredResult(combinedText, productNameLower) ==
  ScoredFrom(ScoreKeys(KeywordOrder(1, combinedText, productNameLower,
                                    NgramOrder(1, combinedText, <<>>)),
                       WashingSpecialCase(productNameLower)),
             combinedText, productNameLower, WashingSpecialCase(productNameLower))

\* mutant: a keyword score decides before the contextual rules are consulted
ClassifyTextScoreFirst(combinedText, productNameLower) ==
  IF KeywordOrder(1, combinedText, productNameLower, <<>>) # <<>>
  THEN ScoredResult(combinedText, productNameLower)
  ELSE IF AutomotiveOilRule(combinedText)
  THEN ContextualResult("oil_product", 95, "volume")
  ELSE IF ViscosityRule(combinedText)
  THEN ContextualResult("oil_product", 98, "volume")
  ELSE ScoredResult(combinedText, productNameLower)

\* mutant: the last rule of contextualRules that holds decides
ClassifyTextLastRule(combinedText, productNameLower) ==
  IF CookingOilRule(combinedText)
  THEN ContextualResult("food_product", 90, "volume")
  ELSE IF LaundryRule(combinedText)
  THEN ContextualResult("cleaning_product", 95, "weight")
  ELSE IF ApiRule(combinedText)
  THEN ContextualResult("oil_product", 98, "volume")
  ELSE IF ViscosityRule(combinedText)
  THEN ContextualResult("oil_product", 98, "volume")
  ELSE IF AutomotiveOilRule(combinedText)
  THEN ContextualResult("oil_product", 95, "volume")
  ELSE ScoredResult(combinedText, productNameLower)

\* the rules of contextualRules in order, then the scores
ClassifyText(combinedText, productNameLower) ==
  IF AutomotiveOilRule(combinedText)
  THEN ContextualResult("oil_product", 95, "volume")
  ELSE IF ViscosityRule(combinedText)
  THEN ContextualResult("oil_product", 98, "volume")
  ELSE IF ApiRule(combinedText)
  THEN ContextualResult("oil_product", 98, "volume")
  ELSE IF LaundryRule(combinedText)
  THEN ContextualResult("cleaning_product", 95, "weight")
  ELSE IF CookingOilRule(combinedText)
  THEN ContextualResult("food_product", 90, "volume")
  ELSE ScoredResult(combinedText, productNameLower)

\* `${productName} ${brandName} ${gpcString}`.toLowerCase()
CombinedText(productName, brandName, gpcString) ==
  ToLower(productName) \o " " \o ToLower(brandName) \o " " \o ToLower(gpcString)

\* classifyProductType(productName, brandName, gpcString); "none" models null
classifyProductType(productName, brandName, gpcString) ==
  ClassifyText(CombinedText(productName, brandName, gpcString), ToLower(productName))
\* ------------------------------------------- the compatibility checker
\* semanticVectors, in tenths; the components are the liquid, solid, item,
\* area-like and length directions of unitDomainVectors
semanticWords ==
  {"liquid", "oil", "beverage", "drink", "fluid", "juice", "water", "milk",
   "sauce", "syrup", "lubricant", "solvent", "cream", "fuel",
   "powder", "solid", "grain", "food", "flour", "rice", "sugar", "salt",
   "cereal", "coffee", "spice", "detergent", "soap", "chemical",
   "device", "electronic", "appliance", "equipment", "apparatus", "phone",
   "computer", "machine", "tool", "furniture", "toy", "game", "clothing",
   "garment", "shoe", "accessory",
   "fabric", "textile", "cloth", "cable", "wire", "rope", "thread", "yarn",
   "ribbon"}

semanticVectors ==
  [w \in semanticWords |->
     CASE w \in {"liquid", "lubricant", "fuel"} -> <<8, 1, 0, 1, 0>>
       [] w \in {"oil", "solvent"} -> <<7, 2, 0, 1, 0>>
       [] w = "beverage" -> <<7, 0, 1, 2, 0>>
       [] w = "drink" -> <<7, 0, 2, 1, 0>>
       [] w = "fluid" -> <<9, 0, 0, 1, 0>>
       [] w \in {"juice", "milk"} -> <<6, 0, 3, 1, 0>>
       [] w = "water" -> <<8, 0, 1, 1, 0>>
       [] w = "sauce" -> <<6, 3, 1, 0, 0>>
       [] w = "syrup" -> <<7, 2, 1, 0, 0>>
       [] w = "cream" -> <<5, 3, 1, 1, 0>>
       [] w = "powder" -> <<1, 8, 0, 1, 0>>
       [] w = "solid" -> <<0, 9, 0, 1, 0>>
       [] w = "grain" -> <<0, 7, 2, 1, 0>>
       [] w = "food" -> <<1, 5, 3, 1, 0>>
       [] w \in {"flour", "sugar", "spice"} -> <<0, 8, 2, 0, 0>>
       [] w \in {"rice", "coffee"} -> <<0, 7, 3, 0, 0>>
       [] w = "salt" -> <<0, 9, 1, 0, 0>>
       [] w = "cereal" -> <<0, 6, 4, 0, 0>>
       [] w = "detergent" -> <<0, 7, 0, 3, 0>>
       [] w = "soap" -> <<0, 6, 0, 4, 0>>
       [] w = "chemical" -> <<2, 6, 0, 2, 0>>
       [] w \in {"device", "phone", "computer", "furniture", "toy", "clothing",
                 "garment", "shoe"} -> <<0, 0, 9, 1, 0>>
       [] w \in {"electronic", "equipment", "machine", "game", "accessory"} ->
            <<0, 0, 8, 2, 0>>
       [] w \in {"appliance", "apparatus", "tool"} -> <<0, 0, 7, 3, 0>>
       [] w \in {"fabric", "textile", "cloth", "rope"} -> <<0, 1, 1, 0, 8>>
       [] w \in {"cable", "wire"} -> <<0, 0, 2, 0, 8>>
       [] w \in {"thread", "yarn", "ribbon"} -> <<0, 1, 0, 0, 9>>]

\* unitDomainVectors, in the order of Object.entries, in tenths
unitDomainVectors ==
  <<[domain |-> "volume", category |-> "liquid", vector |-> <<9, 0, 0, 1, 0>>],
    [domain |-> "weight", category |-> "solid", vector |-> <<0, 9, 0, 1, 0>>],
    [domain |-> "quantity", category |-> "item", vector |-> <<0, 0, 9, 1, 0>>],
    [domain |-> "length", category |-> "length", vector |-> <<0, 0, 0, 1, 9>>],
    [domain |-> "area", category |-> "area", vector |-> <<0, 0, 0, 9, 1>>]>>

\* categoryUnitMap, in the order of Object.entries
categoryUnitMap ==
  <<[category |-> "liquid", expectedType |-> "volume",
     keywords |-> {"liquid", "oil", "beverage", "drink", "fluid", "juice", "water",
                   "milk", "sauce", "syrup", "lubricant", "solvent", "cream", "fuel"}],
    [category |-> "solid", expectedType |-> "weight",
     keywords |-> {"powder", "solid", "grain", "food", "flour", "rice", "sugar",
                   "salt", "cereal", "coffee", "spice", "detergent", "soap",
                   "chemical"}],
    [category |-> "item", expectedType |-> "quantity",
     keywords |-> {"device", "electronic", "appliance", "equipment", "apparatus",
                   "phone", "computer", "machine", "tool", "furniture", "toy",
                   "game", "clothing", "garment", "shoe", "accessory"}],
    [category |-> "length", expectedType |-> "length",
     keywords |-> {"fabric", "textile", "cloth", "cable", "wire", "rope", "thread",
                   "yarn", "ribbon"}],
    [category |-> "area", expectedType |-> "area",
     keywords |-> {"carpet", "rug", "tile", "panel", "board", "sheet", "field",
                   "land"}]>>

ExpectedTypeOf(category) ==
  categoryUnitMap[CHOOSE k \in 1..Len(categoryUnitMap) :
                    categoryUnitMap[k].category = category].expectedType

\* a non-negative rational n/d, used for the squares of the confidences
Frac(n, d) == [n |-> n, d |-> d]
FracGreater(a, b) == a.n * b.d > b.n * a.d

Dot(u, v) == u[1] * v[1] + u[2] * v[2] + u[3] * v[3] + u[4] * v[4] + u[5] * v[5]

\* getAverageVector(text), not divided by the word count: the sum of the vectors
\* of the words with a vector, or the balanced default
RECURSIVE SumVectors(_)
SumVectors(words) ==
  IF words = <<>> THEN <<0, 0, 0, 0, 0>>
  ELSE LET rest == SumVectors(Tail(words))
           v == IF Head(words) \in semanticWords
                THEN semanticVectors[Head(words)] ELSE <<0, 0, 0, 0, 0>>
       IN [k \in 1..5 |-> v[k] + rest[k]]

BrickVector(brickDescription) ==
  LET sum == SumVectors(Tokens(brickDescription, " "))
  IN IF sum = <<0, 0, 0, 0, 0>> THEN <<2, 2, 2, 2, 2>> ELSE sum

\* the square of calculateCosineSimilarity(brickVector, vector)
Similarity2(brickVector, vector) ==
  Frac(Dot(brickVector, vector) * Dot(brickVector, vector),
       Dot(brickVector, brickVector) * Dot(vector, vector))

\* the similarity to one domain vector times the squared length of the brick
\* vector, to compare the domains of one brick
DomainScore(brickVector, vector) ==
  Frac(Dot(brickVector, vector) * Dot(brickVector, vector), Dot(vector, vector))

\* the first domain with the highest similarity
MostLikelyDomain(brickVector) ==
  CHOOSE k \in 1..Len(unitDomainVectors) :
    /\ \A j \in 1..Len(unitDomainVectors) :
         ~FracGreater(DomainScore(brickVector, unitDomainVectors[j].vector),
                      DomainScore(brickVector, unitDomainVectors[k].vector))
    /\ \A j \in 1..(k - 1) :
         FracGreater(DomainScore(brickVector, unitDomainVectors[k].vector),
                     DomainScore(brickVector, unitDomainVectors[j].vector))

\* the vector step: the most similar domain, when the similarity exceeds 0.5;
\* "none" models null; the confidence is kept as its square
VectorDetectionAt(brickVector, domain) ==
  IF FracGreater(Similarity2(brickVector, unitDomainVectors[domain].vector), Frac(1, 4))
  THEN [category |-> unitDomainVectors[domain].category,
        confidence2 |-> Similarity2(brickVector, unitDomainVectors[domain].vector)]
  ELSE [category |-> "none", confidence2 |-> Frac(0, 1)]
VectorDetection(brickVector) ==
  VectorDetectionAt(brickVector, MostLikelyDomain(brickVector))

\* matchCount / keywords.length of one entry of categoryUnitMap, squared
MatchConfidence2(k, brickDescription) ==
  Frac(Cardinality({kw \in categoryUnitMap[k].keywords : Includes(brickDescription, kw)})
         * Cardinality({kw \in categoryUnitMap[k].keywords :
                          Includes(brickDescription, kw)}),
       Cardinality(categoryUnitMap[k].keywords) * Cardinality(categoryUnitMap[k].keywords))

\* the keyword fallback: an entry replaces the detection when its confidence is
\* strictly higher
RECURSIVE KeywordFallback(_, _, _)
KeywordFallback(k, acc, brickDescription) ==
  IF k > Len(categoryUnitMap) THEN acc
  ELSE KeywordFallback(k + 1,
                       IF FracGreater(MatchConfidence2(k, brickDescription),
                                      acc.confidence2)
                       THEN [category |-> categoryUnitMap[k].category,
                             confidence2 |-> MatchConfidence2(k, brickDescription)]
                       ELSE acc,
                       brickDescription)

\* if (!detectedCategory || highestConfidence < 0.6)
WithKeywordFallback(byVector, brickDescription) ==
  IF byVector.category = "none" \/ FracGreater(Frac(9, 25), byVector.confidence2)
  THEN KeywordFallback(1, byVector, brickDescription) ELSE byVector

\* the n-gram patterns: the first pattern that matches replaces the detection
NgramDetection(brickDescription, detected) ==
  IF WordSpaceWord(brickDescription, {"washing", "detergent", "laundry"},
                   {"powder", "granules"})
  THEN [category |-> "solid", confidence2 |-> Frac(9025, 10000)]
  ELSE IF WordSpaceWord(brickDescription,
                        {"engine", "motor", "transmission", "hydraulic"}, {"oil"})
  THEN [category |-> "liquid", confidence2 |-> Frac(9025, 10000)]
  ELSE IF WordSpaceWord(brickDescription, {"liquid"}, {"soap", "detergent", "cleaner"})
  THEN [category |-> "liquid", confidence2 |-> Frac(9025, 10000)]
  ELSE detected

\* the category detected from the brick description and the square of its
\* confidence: the vector similarity, the keyword fallback, then the n-gram
\* patterns
DetectBrickCategory(brickDescription) ==
  NgramDetection(brickDescription,
                 WithKeywordFallback(VectorDetection(BrickVector(brickDescription)),
                                     brickDescription))

\* /\b(api\s+[a-z]{1,2})\b/i.test(brick) for a lower-case brick
HasApiWord(brick) ==
  \E i \in 1..Len(brick) :
    /\ i + 2 <= Len(brick)
    /\ SubSeq(brick, i, i + 2) = "api"
    /\ Boundary(brick, i)
    /\ \E j \in (i + 4)..Len(brick) :
         /\ \A k \in (i + 3)..(j - 1) : IsSpace(CharAt(brick, k))
         /\ CharIn(CharAt(brick, j), LowerCase)
         /\ \/ Boundary(brick, j + 1)
            \/ CharIn(CharAt(brick, j + 1), LowerCase) /\ Boundary(brick, j + 2)

\* /\bapi\s+s[a-z]\b/i.test(brick) for a lower-case brick
HasApiServiceWord(brick) ==
  \E i \in 1..Len(brick) :
    /\ i + 2 <= Len(brick)
    /\ SubSeq(brick, i, i + 2) = "api"
    /\ Boundary(brick, i)
    /\ \E j \in (i + 4)..Len(brick) :
         /\ \A k \in (i + 3)..(j - 1) : IsSpace(CharAt(brick, k))
         /\ CharAt(brick, j) = "s"
         /\ CharIn(CharAt(brick, j + 1), LowerCase)
         /\ Boundary(brick, j + 2)

\* industrySpecificRules, in source order: condition, required unit type ("none"
\* when the rule has none) and prohibited unit types
IndustryRules(brick) ==
  <<[applies |-> \/ WordBeforeWord(brick, {"engine", "motor", "automotive", "car",
                                           "vehicle"},
                                   {"oil", "lubricant", "fluid"})
                 \/ HasApiWord(brick)
                 \/ HasViscosityGrade(brick),
     unitType |-> "volume", prohibited |-> {}],
    [applies |-> \/ HasWord(brick, {"engine", "motor", "oil", "lubricant", "fluid"})
                 \/ HasViscosityGrade(brick)
                 \/ HasApiServiceWord(brick),
     unitType |-> "none", prohibited |-> {"rate", "length", "area"}],
    [applies |-> WordBeforeWord(brick, {"washing", "laundry", "detergent"},
                                {"powder", "granule"}),
     unitType |-> "weight", prohibited |-> {}],
    [applies |-> HasWord(brick, {"drink", "beverage", "water", "juice", "soda",
                                 "milk", "coffee", "tea"}),
     unitType |-> "volume", prohibited |-> {}],
    [applies |-> HasWord(brick, {"electronics", "device", "gadget", "phone",
                                 "computer", "laptop", "tablet"}),
     unitType |-> "quantity", prohibited |-> {}],
    [applies |-> HasWord(brick, {"clothing", "garment", "apparel", "wear",
                                 "fashion", "dress", "shirt", "pant"}),
     unitType |-> "quantity", prohibited |-> {}]>>

\* unitValidationPatterns: the codes each anchored pattern accepts
unitValidationPatterns ==
  [t \in {"volume", "weight", "quantity", "length", "area"} |->
     CASE t = "volume" -> {"l", "ltr", "ml", "cl", "oz", "gal", "floz", "liter"}
       [] t = "weight" -> {"kg", "g", "mg", "lb", "oz", "ton"}
       [] t = "quantity" -> {"pc", "ea", "pcs", "unit", "set", "pair", "each"}
       [] t = "length" -> {"m", "cm", "mm", "ft", "in", "yd"}
       [] t = "area" -> {"m2", "sqm", "sqft", "ha", "acre"}]

\* the step that compares the unit type with the detected category
CategoryDiffers(detected, unitType) ==
  /\ detected.category # "none"
  /\ FracGreater(detected.confidence2, Frac(9, 25))
  /\ unitType # ExpectedTypeOf(detected.category)
CategoryMismatch(brickDescription, unitType) ==
  CategoryDiffers(DetectBrickCategory(brickDescription), unitType)

\* the step that applies the industry rules
RuleViolated(rules, unitType) ==
  \E k \in 1..Len(rules) :
    /\ rules[k].applies
    /\ \/ rules[k].unitType # "none" /\ unitType # rules[k].unitType
       \/ unitType \in rules[k].prohibited
IndustryRuleViolated(brickDescription, unitType) ==
  RuleViolated(IndustryRules(brickDescription), unitType)

\* the step that checks the format of the unit code
UnitFormatWrong(unitLower, unitType) ==
  /\ unitType \in DOMAIN unitValidationPatterns
  /\ unitLower \notin unitValidationPatterns[unitType]
  /\ \E t \in DOMAIN unitValidationPatterns : unitLower \in unitValidationPatterns[t]

\* the brick description the checker works on: the text after the first
\* hyphen of the lower-case label, or the whole label
DescriptionOf(brickLower) ==
  IF Includes(brickLower, "-")
  THEN Trim(SubSeq(brickLower, IndexOf(brickLower, "-") + 1, Len(brickLower)))
  ELSE brickLower
CheckerDescription(brickString) == DescriptionOf(ToLower(brickString))

\* brickCode of the checker: the text before the first hyphen of the lower-case
\* label ("" models null)
CheckerCode(brickString) ==
  IF Includes(brickString, "-")
  THEN Trim(SubSeq(ToLower(brickString), 1, IndexOf(brickString, "-") - 1))
  ELSE ""

\* unitType = unitType || 'unknown'
GivenUnitType(unitTypeGiven) ==
  IF unitTypeGiven \in {"", "null"} THEN "unknown" ELSE unitTypeGiven

\* the three steps on the description, in order
CheckDescription(brickDescription, unitLower, unitType) ==
  IF CategoryMismatch(brickDescription, unitType)
  THEN [compatible |-> FALSE, by |-> "category"]
  ELSE IF IndustryRuleViolated(brickDescription, unitType)
  THEN [compatible |-> FALSE, by |-> "industry-rule"]
  ELSE IF UnitFormatWrong(unitLower, unitType)
  THEN [compatible |-> FALSE, by |-> "unit-format"]
  ELSE [compatible |-> TRUE, by |-> "none"]

\* checkBrickUnitCompatibility(brickString, unitCode, unitType): the verdict and
\* the step that produced it
checkBrickUnitCompatibility(brickString, unitCode, unitTypeGiven) ==
  IF brickString = "" \/ unitCode = "" THEN [compatible |-> TRUE, by |-> "none"]
  ELSE CheckDescription(CheckerDescription(brickString), ToLower(unitCode),
                        GivenUnitType(unitTypeGiven))
\* ------------------------------------------ the image analyzer on text
\* unrelatedContentPatterns: the keywords of each content type
unrelatedContentPatterns ==
  [t \in {"animal", "person", "landscape", "building", "vehicle", "abstract",
          "technology"} |->
     CASE t = "animal" -> {"animal", "dog", "cat", "bird", "pet", "wildlife", "lion",
                           "tiger", "bear", "elephant", "horse"}
       [] t = "person" -> {"person", "people", "human", "man", "woman", "child",
                           "baby", "portrait", "face", "selfie"}
       [] t = "landscape" -> {"landscape", "mountain", "beach", "ocean", "sea",
                              "lake", "forest", "nature", "outdoor", "sky", "sunset"}
       [] t = "building" -> {"building", "house", "architecture", "city", "urban",
                             "construction", "office", "tower", "apartment"}
       [] t = "vehicle" -> {"vehicle", "car", "truck", "motorcycle", "bike",
                            "bicycle", "auto", "automotive", "transport"}
       [] t = "abstract" -> {"abstract", "pattern", "texture", "art", "design",
                             "illustration", "graphic"}
       [] t = "technology" -> {"technology", "computer", "laptop", "phone", "device",
                               "electronic", "digital", "screen", "tech"}]

\* imageValidationPatterns, in the order of Object.entries; visualSignatures are
\* given by the words of each signature
imageValidationPatterns ==
  <<[category |-> "oil_products",
     keywords |-> {"oil", "lubricant", "fluid", "liquid", "engine", "motor",
                   "petroleum", "synthetic"},
     expectedFeatures |-> {"bottle", "container", "can", "jug", "drum", "packaging"},
     validUnits |-> {"L", "ML", "LITER", "GAL", "FLOZ", "QT"},
     imagePatterns |-> {"bottle", "container", "packaging", "oil", "lubricant", "motor"},
     visualSignatures |-> {{"glossy", "liquid"}, {"amber", "color"}, {"yellow"},
                           {"golden"}, {"brown"}},
     incompatibleContent |-> {"animal", "person", "landscape", "building", "abstract"}],
    [category |-> "cleaning_products",
     keywords |-> {"detergent", "cleaner", "soap", "washing", "bleach",
                   "disinfectant", "sanitizer"},
     expectedFeatures |-> {"bottle", "box", "package", "spray", "container", "jug",
                           "pouch"},
     validUnits |-> {"KG", "G", "L", "ML", "OZ", "LB"},
     imagePatterns |-> {"bottle", "box", "container", "cleaner", "soap", "detergent"},
     visualSignatures |-> {{"spray", "bottle"}, {"plastic", "container"}, {"powder"},
                           {"liquid", "soap"}},
     incompatibleContent |-> {"animal", "person", "landscape", "vehicle", "abstract"}],
    [category |-> "food_products",
     keywords |-> {"food", "snack", "meal", "nutrition", "edible", "grocery",
                   "consumable", "ingredient"},
     expectedFeatures |-> {"package", "box", "bag", "container", "wrapper", "pouch",
                           "jar", "can"},
     validUnits |-> {"KG", "G", "MG", "ML", "L", "OZ", "LB"},
     imagePatterns |-> {"package", "container", "food", "edible", "snack", "meal"},
     visualSignatures |-> {{"food", "product"}, {"edible", "content"},
                           {"packaging", "with", "food", "images"}},
     incompatibleContent |-> {"vehicle", "building", "technology"}],
    [category |-> "beverages",
     keywords |-> {"drink", "beverage", "water", "juice", "soda", "milk", "coffee",
                   "tea"},
     expectedFeatures |-> {"bottle", "can", "container", "pack", "carton", "glass",
                           "cup"},
     validUnits |-> {"L", "ML", "CL", "FL OZ", "GAL", "OZ"},
     imagePatterns |-> {"bottle", "can", "container", "drink", "beverage", "liquid"},
     visualSignatures |-> {{"transparent", "bottle"}, {"colorful", "liquid"},
                           {"drinking", "container"}},
     incompatibleContent |-> {"vehicle", "building", "technology"}],
    [category |-> "electronics",
     keywords |-> {"device", "gadget", "electronic", "digital", "tech", "appliance",
                   "computer"},
     expectedFeatures |-> {"box", "device", "product", "packaging", "electronics",
                           "hardware"},
     validUnits |-> {"PC", "UNIT", "SET", "PIECE", "EA", "EACH"},
     imagePatterns |-> {"device", "box", "product", "electronic", "digital", "tech"},
     visualSignatures |-> {{"electronic", "device"}, {"circuit", "board"}, {"screen"},
                           {"control", "panel"}},
     incompatibleContent |-> {"animal", "landscape"}],
    [category |-> "personal_care",
     keywords |-> {"cosmetic", "beauty", "makeup", "skin", "hair", "care",
                   "personal", "hygiene"},
     expectedFeatures |-> {"bottle", "tube", "jar", "container", "packaging",
                           "beauty product"},
     validUnits |-> {"G", "ML", "OZ", "FL OZ", "PIECE"},
     imagePatterns |-> {"cosmetic", "beauty", "personal", "care", "hygiene", "makeup"},
     visualSignatures |-> {{"cream", "jar"}, {"beauty", "product"},
                           {"cosmetic", "packaging"}},
     incompatibleContent |-> {"vehicle", "building", "technology"}],
    [category |-> "clothing",
     keywords |-> {"apparel", "clothing", "wear", "garment", "fashion", "textile",
                   "fabric"},
     expectedFeatures |-> {"garment", "clothing", "apparel", "fabric", "textile",
                           "fashion item"},
     validUnits |-> {"PC", "PIECE", "SET", "PAIR", "EA", "EACH"},
     imagePatterns |-> {"clothing", "apparel", "garment", "fashion", "wear"},
     visualSignatures |-> {{"fabric", "texture"}, {"clothing", "item"},
                           {"folded", "garment"}, {"hanger"}},
     incompatibleContent |-> {"vehicle", "building", "technology"}]>>

\* normalizedUrl.split('/').pop(): the text after the last slash or backslash
AfterLast(imageUrl, slash, backslash) ==
  SubSeq(imageUrl, (IF slash > backslash THEN slash ELSE backslash) + 1, Len(imageUrl))
ImagePath(imageUrl) ==
  AfterLast(imageUrl, LastIndexOf(imageUrl, "/"), LastIndexOf(imageUrl, "\\"))

\* imagePath.split('.')[0].toLowerCase()
NameOfPath(imagePath) ==
  ToLower(IF Includes(imagePath, ".")
          THEN SubSeq(imagePath, 1, IndexOf(imagePath, ".") - 1) ELSE imagePath)
ImageNameWithoutExt(imageUrl) == NameOfPath(ImagePath(imageUrl))

\* imagePath.split('.').pop().toLowerCase()
ExtensionOfPath(imagePath) ==
  ToLower(SubSeq(imagePath, LastIndexOf(imagePath, ".") + 1, Len(imagePath)))
FileExtension(imageUrl) == ExtensionOfPath(ImagePath(imageUrl))

\* the metadata score of a category, in halves: 1.5 for a keyword in the brick,
\* 1.0 for a keyword in the product name
MetadataScore(k, brickLower, productNameLower) ==
  3 * Cardinality({kw \in imageValidationPatterns[k].keywords : Includes(brickLower, kw)})
  + 2 * Cardinality({kw \in imageValidationPatterns[k].keywords :
                       Includes(productNameLower, kw)})

\* the first index with the highest positive score, 0 when there is none
FirstHighest(scores) ==
  IF \A k \in DOMAIN scores : scores[k] <= 0 THEN 0
  ELSE CHOOSE k \in DOMAIN scores :
         /\ \A j \in DOMAIN scores : scores[j] <= scores[k]
         /\ \A j \in 1..(k - 1) : scores[j] < scores[k]

\* detectedCategoryFromMetadata, as a position of imageValidationPatterns
DetectedCategoryFromMetadata(brickLower, productNameLower) ==
  FirstHighest([k \in 1..Len(imageValidationPatterns) |->
                  MetadataScore(k, brickLower, productNameLower)])

\* possibleContentCategories: a keyword that is a component of the name is also
\* a substring of it, so the score is positive exactly when a keyword is a
\* substring
PossibleContentCategories(imageName) ==
  {t \in DOMAIN unrelatedContentPatterns :
     \E kw \in unrelatedContentPatterns[t] : Includes(imageName, kw)}

\* imageCategoryMatchScore > 0
ImageCategoryMatch(k, imageName) ==
  \/ \E f \in imageValidationPatterns[k].expectedFeatures : Includes(imageName, f)
  \/ \E f \in imageValidationPatterns[k].imagePatterns : Includes(imageName, f)
  \/ \E sig \in imageValidationPatterns[k].visualSignatures :
       \A part \in sig : Includes(imageName, part)

\* the fields of a product the analyzer takes, for an image with a name, the
\* category k the metadata implies (0 for none) and the content the name shows
FactsOf(hasImage, k, imageName, content, unitLower, extension) ==
  [front_image |-> hasImage,
   imgCategory |-> hasImage /\ k # 0,
   imgMatch |-> hasImage /\ k # 0 /\ ImageCategoryMatch(k, imageName),
   contentDetected |-> hasImage /\ content # {},
   incompatible |-> hasImage /\ k # 0
                    /\ content \cap imageValidationPatterns[k].incompatibleContent # {},
   imgUnitValid |-> ~hasImage \/ k = 0
                    \/ \E validUnit \in imageValidationPatterns[k].validUnits :
                         Includes(unitLower, ToLower(validUnit)),
   formatOk |-> ~hasImage \/ k = 0 \/ extension \in {"jpg", "png", "webp"}]

\* what analyzeProductImage(imageUrl, brick, unit, productName) reads from its
\* arguments
ImageFacts(imageUrl, brick, unit, productName) ==
  FactsOf(imageUrl # "",
          DetectedCategoryFromMetadata(ToLower(brick), ToLower(productName)),
          ImageNameWithoutExt(imageUrl),
          PossibleContentCategories(ImageNameWithoutExt(imageUrl)),
          ToLower(unit), FileExtension(imageUrl))
\* ------------------------------------- a product row and what the checks read
\* a row of the products table; a null column is ""
Row(name, brand, gpc, unit, image) ==
  [productnameenglish |-> name, BrandName |-> brand, gpc |-> gpc, unit |-> unit,
   front_image |-> image]

\* relatedTerms of getRelatedTerms
relatedTerms ==
  [key \in {"food", "beverage", "electronics", "clothing", "chemical", "household",
            "beauty", "health", "toy"} |->
     CASE key = "food" -> {"edible", "consumable", "nutrition", "grocery", "meal", "snack"}
       [] key = "beverage" -> {"drink", "liquid", "water", "juice", "fluid"}
       [] key = "electronics" -> {"device", "gadget", "tech", "digital", "electronic",
                                  "appliance"}
       [] key = "clothing" -> {"apparel", "garment", "wear", "fashion", "textile"}
       [] key = "chemical" -> {"cleaner", "solution", "compound", "mixture", "solvent"}
       [] key = "household" -> {"home", "domestic", "kitchen", "bathroom", "living"}
       [] key = "beauty" -> {"cosmetic", "makeup", "skincare", "personal care"}
       [] key = "health" -> {"medical", "wellness", "medicine", "healthcare", "pharmacy"}
       [] key = "toy" -> {"game", "play", "entertainment", "children"}]

\* getRelatedTerms(category1, category2).length > 0
getRelatedTerms(category1, category2) ==
  \E key \in DOMAIN relatedTerms :
    /\ Includes(category1, key) \/ \E term \in relatedTerms[key] : Includes(category1, term)
    /\ Includes(category2, key) \/ \E term \in relatedTerms[key] : Includes(category2, term)

\* the categories table of the keyword comparison, in source order
fallbackCategories ==
  <<[category |-> "oil",
     keywords |-> {"oil", "lubricant", "petroleum", "liquid", "fluid", "engine"}],
    [category |-> "food",
     keywords |-> {"food", "edible", "consumable", "nutrition", "grocery", "meal",
                   "snack"}],
    [category |-> "beverage",
     keywords |-> {"drink", "water", "juice", "soda", "beverage", "liquid"}],
    [category |-> "electronics",
     keywords |-> {"device", "gadget", "tech", "digital", "electronic", "appliance"}],
    [category |-> "clothing",
     keywords |-> {"apparel", "garment", "wear", "fashion", "textile", "cloth"}],
    [category |-> "chemical",
     keywords |-> {"cleaner", "solution", "compound", "mixture", "solvent",
                   "chemical", "washing powder", "detergent"}],
    [category |-> "industrial",
     keywords |-> {"industrial", "business", "machinery", "equipment", "tool"}],
    [category |-> "automotive",
     keywords |-> {"car", "auto", "vehicle", "engine", "motor"}]>>

RECURSIVE JoinFrom(_, _)
JoinFrom(seq, k) ==
  IF k > Len(seq) THEN ""
  ELSE seq[k] \o (IF k < Len(seq) THEN " " ELSE "") \o JoinFrom(seq, k + 1)

\* the categories of fallbackCategories with a keyword in one of the texts, by
\* position
CategoriesIn(text1, text2) ==
  {k \in 1..Len(fallbackCategories) :
     \E kw \in fallbackCategories[k].keywords :
       Includes(text1, kw) \/ Includes(text2, kw)}

\* detectedGpcCategories.join(' ')
JoinedNames(gpc) ==
  JoinFrom(SelectSeq([k \in 1..Len(fallbackCategories) |->
                        IF k \in gpc THEN fallbackCategories[k].category ELSE ""],
                     LAMBDA x : x # ""), 1)

\* detectedProductCategories and detectedGpcCategories are non-empty and no
\* product category is a GPC category or related to the joined GPC categories
CategoriesMismatch(product, gpc, gpcNames) ==
  /\ product # {}
  /\ gpc # {}
  /\ ~\E k \in product :
        k \in gpc \/ getRelatedTerms(fallbackCategories[k].category, gpcNames)

KeywordMismatch(productNameLower, brandNameLower, gpcLower) ==
  CategoriesMismatch(CategoriesIn(productNameLower, brandNameLower),
                     CategoriesIn(gpcLower, gpcLower),
                     JoinedNames(CategoriesIn(gpcLower, gpcLower)))

\* isOilProduct && isOilGpc
OilSpecialCase(productNameLower, brandNameLower, gpcLower) ==
  /\ Includes(brandNameLower, "oil") \/ Includes(productNameLower, "oil")
  /\ Includes(gpcLower, "oil") \/ Includes(gpcLower, "engine")
       \/ Includes(gpcLower, "lubricant")

\* String.prototype.replace with a string pattern: the first occurrence
ReplaceAt(s, at, pat, by) ==
  IF at = 0 THEN s
  ELSE SubSeq(s, 1, at - 1) \o by \o SubSeq(s, at + Len(pat), Len(s))
ReplaceFirst(s, pat, by) == ReplaceAt(s, IndexOf(s, pat), pat, by)

\* gpcLower.includes(detectedCategory.replace('_product', '')) ||
\* gpcLower.includes(detectedCategory.replace('_', ' '))
GpcConsistent(gpcLower, detectedCategory) ==
  \/ Includes(gpcLower, ReplaceFirst(detectedCategory, "_product", ""))
  \/ Includes(gpcLower, ReplaceFirst(detectedCategory, "_", " "))

\* the result of the classifier when it is not called
NotClassified ==
  [category |-> "none", confidence |-> 0, expectedUnit |-> "none",
   detectionMethod |-> "keyword"]

\* if (product.BrandName && product.gpc): classifyProductType on the name, the
\* brand and parsedBrick.description || product.gpc
ClassifyRow(row, brickDescription) ==
  IF row.BrandName # "" /\ row.gpc # ""
  THEN classifyProductType(row.productnameenglish, row.BrandName,
                           IF brickDescription # "" THEN brickDescription ELSE row.gpc)
  ELSE NotClassified

\* if (product.gpc && product.unit && parsedUnit.type)
CompatibleRow(row, unitType) ==
  IF row.gpc # "" /\ row.unit # "" /\ unitType # "null"
  THEN checkBrickUnitCompatibility(row.gpc, row.unit, unitType).compatible
  ELSE TRUE

\* the fields of a product the checks read, from the row, the lower-case texts,
\* the classifier's result c, the checker's verdict and the image facts
ProductRecord(row, productNameLower, brandNameLower, gpcLower, c, compatible, unitType, facts) ==
  [front_image |-> row.front_image # "",
   BrandName |-> row.BrandName # "",
   gpc |-> row.gpc # "",
   unit |-> row.unit # "",
   nameOil |-> Includes(productNameLower, "oil"),
   nameFood |-> Includes(productNameLower, "food"),
   compatible |-> compatible,
   category |-> c.category # "none",
   confidence |-> c.confidence,
   expectedUnit |-> c.expectedUnit,
   gpcConsistent |->
     IF row.BrandName # "" /\ row.gpc # "" /\ c.category # "none" /\ c.confidence >= 50
     THEN GpcConsistent(gpcLower, c.category) ELSE TRUE,
   keywordMismatch |->
     /\ row.BrandName # "" /\ row.gpc # ""
     /\ c.category = "none" \/ c.confidence < 50
     /\ KeywordMismatch(productNameLower, brandNameLower, gpcLower),
   oilSpecial |->
     /\ row.BrandName # "" /\ row.gpc # ""
     /\ c.category = "none" \/ c.confidence < 50
     /\ OilSpecialCase(productNameLower, brandNameLower, gpcLower),
   unitType |-> unitType,
   imgCategory |-> facts.imgCategory,
   imgMatch |-> facts.imgMatch,
   contentDetected |-> facts.contentDetected,
   incompatible |-> facts.incompatible,
   imgUnitValid |-> facts.imgUnitValid,
   formatOk |-> facts.formatOk]

\* the product the checks of getAllProducts see: the row with the unit row the
\* lookup gave, each condition of the code evaluated on the text
ProductOf(row, unitData) ==
  ProductRecord(row, ToLower(row.productnameenglish), ToLower(row.BrandName),
                ToLower(row.gpc),
                ClassifyRow(row, ToLower(parseBrickDescription(row.gpc))),
                CompatibleRow(row, parseUnit(row.unit, unitData).type),
                inferUnitType(unitData),
                ImageFacts(row.front_image, row.gpc, row.unit, row.productnameenglish))
\* --------------------------------------------- the functions as called
\* mutant: the confidence is drawn from the clock
StampDrifting(r, time) ==
  [isValid |-> r.isValid, contentConsistency |-> r.contentConsistency,
   issues |-> r.issues, confidence |-> (r.confidence + time) % 101, timestamp |-> time]

\* the result with analysisMetadata.timestamp: new Date().toISOString()
Stamp(r, time) ==
  [isValid |-> r.isValid, contentConsistency |-> r.contentConsistency,
   issues |-> r.issues, confidence |-> r.confidence, timestamp |-> time]

\* analyzeProductImage(imageUrl, brick, unit, productName) at a time of day: the
\* analyzer on what it reads from the text
analyzeProductImageAt(imageUrl, brick, unit, productName, time) ==
  Stamp(analyzeProductImage(ImageFacts(imageUrl, brick, unit, productName)), time)

\* recommendedUnits of the unit-vs-category suggestion
RecommendedUnits(expectedUnit) ==
  CASE expectedUnit = "volume" -> <<"L", "ML", "FL OZ">>
    [] expectedUnit = "weight" -> <<"KG", "G">>
    [] expectedUnit = "quantity" -> <<"PC", "EA", "UNIT">>
    [] expectedUnit = "length" -> <<"M", "CM", "MM">>
    [] expectedUnit = "area" -> <<"M2", "SQM", "SQFT">>
    [] OTHER -> <<>>

\* ---------------------------------------------------------- the batch
VARIABLES
  products,              \* the page of products returned by the query
  prefetchedGpcClasses,  \* prefetchGpcClasses() returned titles for the category
  verification,          \* the verification object of each task
  pc,                    \* the position of each task of products.map(async ...)
  stageLog,              \* the blocks each task has executed, in order
  response,              \* what res.json was called with
  rows,                  \* the rows of the page as the product query returned them
  lookups,               \* how far the bulk lookups are, and what they returned
  call,                  \* a function under call, with its arguments
  results,               \* what the successive runs of that call returned
  now                    \* the clock new Date() reads

vars == <<products, prefetchedGpcClasses, verification, pc, stageLog, response, rows, lookups, call, results, now>>

\* the state of the direct calls, and of the lookups before the map
textVars == <<call, results, now>>
lookupVars == <<rows, lookups>>

Tasks == 1..Len(products)

\* a task is suspended at its await or has returned
Suspended(i) == pc[i] \in {"awaiting", "returned"}

\* products.map runs the synchronous part of each callback to its first await
\* before it calls the next one
MayRun(i) == \A j \in Tasks : j < i => Suspended(j)

\* calls of clarifaiApp.models.predict that have not completed
InFlight == {i \in Tasks : pc[i] = "awaiting"}

\* mutant: one verification object declared outside the callback
StoreVerificationShared(ver, i, v) == [j \in DOMAIN ver |-> v]

\* the verification object is created inside the callback, one per task
StoreVerification(ver, i, v) == [ver EXCEPT ![i] = v]

Step(i, from, to, v) ==
  /\ pc[i] = from
  /\ MayRun(i)
  /\ pc' = [pc EXCEPT ![i] = to]
  /\ verification' = StoreVerification(verification, i, v)
  /\ stageLog' = [stageLog EXCEPT ![i] = Append(@, to)]
  /\ UNCHANGED <<products, prefetchedGpcClasses, response, textVars, lookupVars>>

DoRequiredFields(i) ==
  Step(i, "start", "required-fields-check",
       RequiredFieldsCheck(InitialVerification, products[i]))

DoCompatibility(i) ==
  Step(i, "required-fields-check", "compatibility-check",
       CompatibilityCheck(verification[i], products[i]))

DoCategory(i) ==
  Step(i, "compatibility-check", "category-classification-check",
       CategoryCheck(verification[i], products[i], prefetchedGpcClasses))

DoUnitCategory(i) ==
  Step(i, "category-classification-check", "unit-vs-category-check",
       UnitCategoryCheck(verification[i], products[i]))

DoGeneralSuggestion(i) ==
  Step(i, "unit-vs-category-check", "general-suggestion",
       GeneralSuggestion(verification[i], products[i]))

DoEnhancementTips(i) ==
  Step(i, "general-suggestion", "enhancement-tips",
       EnhancementTips(verification[i], products[i]))

DoImageAnalysis(i) ==
  Step(i, "enhancement-tips", "image-check",
       ImageAnalysisCheck(verification[i], products[i]))

\* if (product.front_image): the call is issued and the task awaits it
ClarifaiCall(i) ==
  /\ pc[i] = "image-check"
  /\ MayRun(i)
  /\ products[i].front_image
  /\ pc' = [pc EXCEPT ![i] = "awaiting"]
  /\ stageLog' = [stageLog EXCEPT ![i] = Append(@, "clarifai-call")]
  /\ UNCHANGED <<products, prefetchedGpcClasses, verification, response, textVars, lookupVars>>

\* no image: the callback returns without awaiting
ReturnWithoutImage(i) ==
  /\ pc[i] = "image-check"
  /\ MayRun(i)
  /\ ~products[i].front_image
  /\ pc' = [pc EXCEPT ![i] = "returned"]
  /\ stageLog' = [stageLog EXCEPT ![i] = Append(@, "return")]
  /\ UNCHANGED <<products, prefetchedGpcClasses, verification, response, textVars, lookupVars>>

\* a prediction completes (in any order, after the map call has launched every
\* task) and the task runs to its return
ClarifaiResponse(i, outcome) ==
  /\ pc[i] = "awaiting"
  /\ \A j \in Tasks : Suspended(j)
  /\ pc' = [pc EXCEPT ![i] = "returned"]
  /\ verification' =
       StoreVerification(verification, i,
                         ClarifaiCheck(verification[i], products[i], outcome))
  /\ stageLog' = [stageLog EXCEPT ![i] = Append(@, "clarifai-result") \o <<"return">>]
  /\ UNCHANGED <<products, prefetchedGpcClasses, response, textVars, lookupVars>>

\* mutant: a failed recognition call turns the page into an error response
BuildResponseFailsOnError(ver) ==
  IF \E i \in DOMAIN ver : ver[i].clarifaiVerification = "error"
  THEN [sent |-> TRUE, success |-> FALSE, data |-> <<>>]
  ELSE [sent |-> TRUE, success |-> TRUE, data |-> ver]

\* res.json({ success: true, ..., data: verifiedProducts })
BuildResponse(ver) == [sent |-> TRUE, success |-> TRUE, data |-> ver]

\* await Promise.all(...) resolves and res.json sends the page
SendResponse ==
  /\ ~response.sent
  /\ lookups.next = "map"
  /\ \A i \in Tasks : pc[i] = "returned"
  /\ response' = BuildResponse(verification)
  /\ UNCHANGED <<products, prefetchedGpcClasses, verification, pc, stageLog, textVars, lookupVars>>

Next ==
  \/ \E i \in Tasks :
       \/ DoRequiredFields(i)
       \/ DoCompatibility(i)
       \/ DoCategory(i)
       \/ DoUnitCategory(i)
       \/ DoGeneralSuggestion(i)
       \/ DoEnhancementTips(i)
       \/ DoImageAnalysis(i)
       \/ ClarifaiCall(i)
       \/ ReturnWithoutImage(i)
       \/ \E outcome \in ClarifaiOutcomes : ClarifaiResponse(i, outcome)
  \/ SendResponse

NoResponse == [sent |-> FALSE, success |-> FALSE, data |-> <<>>]

InitTasks(n) ==
  /\ verification = [i \in 1..n |-> InitialVerification]
  /\ pc = [i \in 1..n |-> "start"]
  /\ stageLog = [i \in 1..n |-> <<>>]
  /\ response = NoResponse

\* no function is under direct call
NoCall == [fn |-> "none"]
TextIdle == call = NoCall /\ results = <<>> /\ now = 0

\* the lookups are over and products.map has been entered
LookupsDone == [next |-> "map", failed |-> {}, unitsFound |-> {}]
LookupIdle == rows = <<>> /\ lookups = LookupsDone

\* a request for one product (req.query.id), over every product
Init ==
  /\ \E p \in Products : products = <<p>>
  /\ prefetchedGpcClasses \in BOOLEAN
  /\ InitTasks(1)
  /\ TextIdle
  /\ LookupIdle

Spec == Init /\ [][Next]_vars

AllPresent(p) == p.front_image /\ p.BrandName /\ p.gpc /\ p.unit

\* the products a page is filled with: plain names, a classifier that found no
\* category, every combination of missing fields; an image whose file name is
\* consistent (or, without a unit, says nothing); and, for a complete product,
\* also an incompatible unit and an image with unrelated content
Catalogue ==
  {p \in Products :
     /\ ~p.nameOil /\ ~p.nameFood
     /\ ~p.category /\ ~p.keywordMismatch /\ ~p.oilSpecial
     /\ p.formatOk
     /\ p.compatible \/ AllPresent(p)
     /\ \/ ~p.front_image
        \/ p.unit /\ p.imgCategory /\ p.imgMatch /\ p.imgUnitValid
        \/ ~p.unit /\ ~p.imgCategory /\ ~p.contentDetected
        \/ AllPresent(p) /\ ~p.imgCategory /\ p.contentDetected}

\* a page request: up to MaxProducts products
InitBatch ==
  /\ \E n \in 1..MaxProducts : products \in [1..n -> Catalogue]
  /\ prefetchedGpcClasses \in BOOLEAN
  /\ InitTasks(Len(products))
  /\ TextIdle
  /\ LookupIdle

SpecBatch == InitBatch /\ [][Next]_vars

\* ------------------------------------------------------- the claims
\* the per-product callback as one function of the product, the prefetched
\* titles and the outcome of the recognition call
SyncPart(p, gpcClasses) ==
  ImageAnalysisCheck(
    EnhancementTips(
      GeneralSuggestion(
        UnitCategoryCheck(
          CategoryCheck(
            CompatibilityCheck(
              RequiredFieldsCheck(InitialVerification, p), p),
            p, gpcClasses), p), p), p), p)

VerifyProduct(p, gpcClasses, outcome) ==
  IF p.front_image THEN ClarifaiCheck(SyncPart(p, gpcClasses), p, outcome)
  ELSE SyncPart(p, gpcClasses)

Severe(issue) == issue.severity \in {"critical", "high"}
HasSevereIssue(v) == \E k \in 1..Len(v.issues) : Severe(v.issues[k])
Returned(i) == pc[i] = "returned"
Count(seq, Test(_)) == Cardinality({k \in 1..Len(seq) : Test(seq[k])})

\* ------------------------------------------------- the functions, called
MaxRuns == 2
MaxClock == 2

\* a call: the function, its string arguments in order, the resolved unit row,
\* whether titles were prefetched, the outcome of the recognition call
MkCall(fn, a, b, c, d, e, unitData, gpcClasses, outcome) ==
  [fn |-> fn, a |-> a, b |-> b, c |-> c, d |-> d, e |-> e, unitData |-> unitData,
   gpcClasses |-> gpcClasses, outcome |-> outcome]

\* the rows of the units table: a code of the table with its name, a code or a
\* name alone; a row in lower case; a code the table does not hold; no row
UnitDescriptors ==
  UNION {{UnitData(c, unitNameMap[c]), UnitData(c, ""), UnitData("", unitNameMap[c])} :
           c \in DOMAIN unitNameMap}
  \cup {NoUnitData, UnitData("", ""), UnitData("BOX", "Box"), UnitData("kg", "kilogram"),
        UnitData("MPS", "Meters per second"), UnitData("M60", ""), UnitData("RPM", "")}

ProductNames ==
  {"PROMAX SP 0W16", "Castrol Edge 5W30", "Laundry Detergent 10W40",
   "Olive Oil 5w30 Cooking", "Juice Water Milk Coffee Tea 20W50",
   "SAE5W30 Washing Powder", "Washing Powder", "Sunflower Cooking Oil",
   "Mobile Phone", "Helix API SN Plus", "Coffee Maker and Tea Kettle",
   "Coffee Milk Tea Hand Wash Soap", "Hand Wash Soap", "Car Wash Powder", ""}
BrandNames == {"SAMA OIL", ""}
BrickLabels ==
  {"20002871-Type of Engine Oil Target", "Engine Oil", "Engine Oil - Fully Synthetic",
   "Washing Powder and Engine Oil Additives", "Engine Oils and Phone Holders",
   "Motor Oils", "Laundry Detergents", "20002871 Engine Oil", ""}
ClassifierLabels ==
  {"20002871-Type of Engine Oil Target", "Motor Oils", "Laundry Detergents", ""}
UnitCodes == {"LTR", "KG", "PC", "M", "BOX", ""}
UnitTypeArgs == {"weight", "volume", "quantity", "length", "area", "rate", "unknown"}
ImageUrls ==
  {"front-oil-bottle.jpg", "dog-playing-park.jpg", "dog-oil-bottle.jpg",
   "uploads\\products\\img123.bmp", "sunset_beach.png", "car-engine.webp", ""}
ImageBricks ==
  {"Motor Oils", "20002871-Type of Engine Oil Target", "Laundry Detergents", ""}

ScenarioA ==
  Row("PROMAX SP 0W16", "SAMA OIL", "20002871-Type of Engine Oil Target", "LTR",
      "front-oil-bottle.jpg")
ScenarioB ==
  Row("PROMAX SP 0W16", "SAMA OIL", "20002871-Type of Engine Oil Target", "PC",
      "front-oil-bottle.jpg")
VerifyRows ==
  {ScenarioA, ScenarioB,
   Row("Washing Powder", "Acme", "Laundry Detergents", "KG", "dog-playing-park.jpg"),
   Row("Sunflower Cooking Oil", "", "Motor Oils", "", "")}

\* the row of the units table a product's unit resolves to, when there is one
UnitRow(unit) ==
  IF unit \in DOMAIN unitNameMap THEN UnitData(unit, unitNameMap[unit]) ELSE NoUnitData

Calls ==
  {MkCall("inferUnitType", "", "", "", "", "", u, FALSE, "match") : u \in UnitDescriptors}
  \cup {MkCall("classifyProductType", n, b, g, "", "", NoUnitData, FALSE, "match") :
          n \in ProductNames, b \in BrandNames, g \in ClassifierLabels}
  \cup {MkCall("checkBrickUnitCompatibility", g, u, t, "", "", NoUnitData, FALSE, "match") :
          g \in BrickLabels, u \in UnitCodes, t \in UnitTypeArgs}
  \cup {MkCall("analyzeProductImage", i, g, u, n, "", NoUnitData, FALSE, "match") :
          i \in ImageUrls, g \in ImageBricks, u \in {"LTR", "PC", ""},
          n \in {"PROMAX SP 0W16"}}
  \cup UNION {{MkCall("verification", r.productnameenglish, r.BrandName, r.gpc, r.unit,
                      r.front_image, d, t, o) :
                 d \in {NoUnitData, UnitRow(r.unit)}, t \in BOOLEAN,
                 o \in ClarifaiOutcomes} : r \in VerifyRows}

RunCall(fn, result) ==
  /\ call.fn = fn
  /\ Len(results) < MaxRuns
  /\ results' = Append(results, result)
  /\ UNCHANGED <<call, now, products, prefetchedGpcClasses, verification, pc, stageLog, response, lookupVars>>

CallInferUnitType == RunCall("inferUnitType", inferUnitType(call.unitData))

CallClassifyProductType ==
  RunCall("classifyProductType", classifyProductType(call.a, call.b, call.c))

CallCheckCompatibility ==
  RunCall("checkBrickUnitCompatibility",
          checkBrickUnitCompatibility(call.a, call.b, call.c))

CallAnalyzeProductImage ==
  RunCall("analyzeProductImage",
          analyzeProductImageAt(call.a, call.b, call.c, call.d, now))

\* time passes between two calls
Tick ==
  /\ results # <<>>
  /\ now < MaxClock
  /\ now' = now + 1
  /\ UNCHANGED <<call, results, products, prefetchedGpcClasses, verification, pc, stageLog, response, lookupVars>>

\* the callback of products.map on one product, run to its return
CallVerification ==
  RunCall("verification",
          VerifyProduct(ProductOf(Row(call.a, call.b, call.c, call.d, call.e),
                                  call.unitData),
                        call.gpcClasses, call.outcome))

NextText ==
  \/ CallInferUnitType
  \/ CallClassifyProductType
  \/ CallCheckCompatibility
  \/ CallAnalyzeProductImage
  \/ CallVerification
  \/ Tick

\* no request is being served
NoRequest ==
  /\ products = <<>>
  /\ prefetchedGpcClasses = FALSE
  /\ InitTasks(0)
  /\ LookupIdle

InitText ==
  /\ call \in Calls
  /\ results = <<>>
  /\ now = 0
  /\ NoRequest

SpecText == InitText /\ [][NextText]_vars

\* --------------------------------------------------- the bulk lookups
LookupRows ==
  {ScenarioA, ScenarioB, Row("Washing Powder", "Acme", "Laundry Detergents", "KG", "")}

\* what a findMany can do: throw, or return the rows that match
QueryOutcomes(matches) ==
  {[threw |-> TRUE, value |-> {}]} \cup {[threw |-> FALSE, value |-> m] : m \in matches}

\* mutant: the query is awaited without the wrapper
unguardedDbQuery(outcome, fallback) == outcome

\* safeDbQuery(queryFn, fallback = [])
safeDbQuery(outcome, fallback) ==
  [threw |-> FALSE, value |-> IF outcome.threw THEN fallback ELSE outcome.value]

\* res.status(500).json({ success: false, ... }) of the outer catch
ErrorResponse == [sent |-> TRUE, success |-> FALSE, data |-> <<>>]

\* what the checks see of each row, with and without its row of the units table
ResolvedProduct ==
  [r \in LookupRows, found \in BOOLEAN |->
     ProductOf(r, IF found THEN UnitRow(r.unit) ELSE NoUnitData)]

\* the page enters products.map with the rows resolved against the unit lookup
EnterMap(unitsFound) ==
  /\ products' = [i \in 1..Len(rows) |-> ResolvedProduct[rows[i], i \in unitsFound]]
  /\ verification' = [i \in 1..Len(rows) |-> InitialVerification]
  /\ pc' = [i \in 1..Len(rows) |-> "start"]
  /\ stageLog' = [i \in 1..Len(rows) |-> <<>>]

\* one awaited lookup: a throw that is not caught ends the request in the
\* outer catch
Fetch(name, then, outcome) ==
  /\ lookups.next = name
  /\ LET q == safeDbQuery(outcome, {})
     IN IF q.threw
        THEN /\ response' = ErrorResponse
             /\ lookups' = [lookups EXCEPT !.next = "aborted"]
             /\ UNCHANGED <<products, verification, pc, stageLog>>
        ELSE /\ lookups' = [next |-> then,
                            failed |-> IF outcome.threw THEN lookups.failed \cup {name}
                                       ELSE lookups.failed,
                            unitsFound |-> IF name = "units" THEN q.value
                                           ELSE lookups.unitsFound]
             /\ IF then = "map" THEN EnterMap(lookups.unitsFound)
                ELSE UNCHANGED <<products, verification, pc, stageLog>>
             /\ UNCHANGED response
  /\ UNCHANGED <<prefetchedGpcClasses, rows, textVars>>

\* the products of the page with a unit, by position
WithUnit == {i \in 1..Len(rows) : rows[i].unit # ""}
WithBrand == {i \in 1..Len(rows) : rows[i].BrandName # ""}

FetchBrands ==
  \E outcome \in QueryOutcomes({{}, WithBrand}) : Fetch("brands", "units", outcome)

FetchUnits ==
  \E outcome \in QueryOutcomes(SUBSET WithUnit) : Fetch("units", "bricks", outcome)

FetchBricks ==
  \E outcome \in QueryOutcomes({{}}) : Fetch("bricks", "map", outcome)

NextLookup ==
  \/ FetchBrands
  \/ FetchUnits
  \/ FetchBricks
  \/ Next

InitLookup ==
  /\ \E n \in 1..MaxProducts : rows \in [1..n -> LookupRows]
  /\ lookups = [next |-> "brands", failed |-> {}, unitsFound |-> {}]
  /\ products = <<>>
  /\ prefetchedGpcClasses \in BOOLEAN
  /\ InitTasks(0)
  /\ TextIdle

SpecLookup == InitLookup /\ [][NextLookup]_vars

\* C1: in every result returned, isValid, status 'verified' and the absence of
\* a critical or high issue are equivalent
C1_ValidIffVerifiedIffNoSevereIssue ==
  response.sent =>
    \A i \in DOMAIN response.data :
      LET v == response.data[i]
      IN /\ v.isValid <=> (v.verificationStatus = "verified")
         /\ v.isValid <=> ~HasSevereIssue(v)

\* C1 witness: a result sent with lesser image findings next to severe ones,
\* after the recognition step ran
C1_Witness ==
  /\ response.sent
  /\ \E i \in DOMAIN response.data :
       LET v == response.data[i]
       IN /\ ~v.isValid
          /\ v.missingFields = <<>>
          /\ v.clarifaiVerification = "match"
          /\ \E k \in 1..Len(v.issues) : v.issues[k].severity = "warning"

\* C2 as stated: every result that ends unverified carries a suggestion
C2_UnverifiedHasSuggestion ==
  \A i \in Tasks :
    (Returned(i) /\ verification[i].verificationStatus = "unverified")
      => Len(verification[i].aiSuggestions) > 0

\* C3 as stated: a failed recognition call leaves the status and the issues as
\* they were without a recognition result
C3_ClarifaiFailureKeepsStatus ==
  \A i \in Tasks :
    (Returned(i) /\ verification[i].clarifaiVerification = "error")
      => LET before == SyncPart(products[i], prefetchedGpcClasses)
         IN /\ verification[i].verificationStatus = before.verificationStatus
            /\ verification[i].issues = before.issues

\* C4: a failed recognition call for one product leaves every result what the
\* product's own inputs make it, and the response is a success with one entry
\* per product
C4_FailureDoesNotAbortBatch ==
  /\ \A j \in Tasks :
       Returned(j) =>
         verification[j] =
           VerifyProduct(products[j], prefetchedGpcClasses,
                         verification[j].clarifaiVerification)
  /\ response.sent =>
       /\ response.success
       /\ DOMAIN response.data = Tasks
       /\ response.data = verification
  /\ ((\A j \in Tasks : Returned(j)) /\ ~response.sent) => ENABLED SendResponse

\* C4 witness: a page sent where one product's call failed and another's matched
C4_Witness ==
  /\ response.sent
  /\ \E i, j \in Tasks :
       /\ response.data[i].clarifaiVerification = "error"
       /\ response.data[j].clarifaiVerification = "match"
       /\ response.data[j].isValid

\* C5 as stated: the calls in flight stay below a limit that does not grow with
\* the page; such a limit lies below the largest page
C5_InFlightCapped == Cardinality(InFlight) < MaxProducts

FieldSet == {RequiredFields[k] : k \in 1..Len(RequiredFields)}
Missing(p) == {f \in FieldSet : ~p[f]}

\* C6: an absent required field yields exactly one critical issue, one
\* missingFields entry and one suggestion for it and an unverified status; a
\* present field yields none of the three
C6_RequiredFieldsIndependent ==
  \A i \in Tasks :
    Returned(i) =>
      \A f \in FieldSet :
        LET v == verification[i]
            IsRule(x) == x = Issue(RequiredRule(f), "critical")
            IsName(x) == x = f
            IsField(x) == x.field = f
            IsRequired(x) == x = Suggestion(f, "Critical", "required")
        IN IF ~products[i][f]
           THEN /\ Count(v.issues, IsRule) = 1
                /\ Count(v.missingFields, IsName) = 1
                /\ Count(v.aiSuggestions, IsField) = 1
                /\ Count(v.aiSuggestions, IsRequired) = 1
                /\ v.verificationStatus = "unverified"
           ELSE /\ Count(v.issues, IsRule) = 0
                /\ Count(v.missingFields, IsName) = 0
                /\ Count(v.aiSuggestions, IsRequired) = 0

\* C6 witness: a returned product without image and unit but with brand and gpc
C6_Witness ==
  \E i \in Tasks :
    /\ Returned(i)
    /\ Missing(products[i]) = {"front_image", "unit"}
    /\ verification[i].missingFields = <<"front_image", "unit">>

\* P2 lacks exactly one required field more than P1
OneMoreMissing(p1, p2) ==
  \E f \in FieldSet \ Missing(p1) : Missing(p2) = Missing(p1) \cup {f}

\* C7: a product that lacks one required field more has no higher score and is
\* unverified if the other is (whatever else the two products differ in)
C7_Monotone ==
  \A i, j \in Tasks :
    (Returned(i) /\ Returned(j) /\ OneMoreMissing(products[i], products[j]))
      => /\ verification[j].verificationScore <= verification[i].verificationScore
         /\ verification[i].verificationStatus = "unverified"
              => verification[j].verificationStatus = "unverified"

\* C7 witness: a complete product that is unverified by its image, next to one
\* that lacks a field
C7_Witness ==
  \E i, j \in Tasks :
    /\ Returned(i) /\ Returned(j)
    /\ OneMoreMissing(products[i], products[j])
    /\ Missing(products[i]) = {}
    /\ verification[i].verificationStatus = "unverified"
    /\ verification[j].verificationStatus = "unverified"

\* C8 as stated: the score stays within 0..100 and is below 100 once a critical
\* or high issue was recorded
C8_ScoreReflectsIssues ==
  \A i \in Tasks :
    Returned(i) =>
      /\ verification[i].verificationScore \in 0..100
      /\ HasSevereIssue(verification[i]) => verification[i].verificationScore < 100

Position(seq, x) == CHOOSE k \in 1..Len(seq) : seq[k] = x

\* C9 as stated: the step that appends the generic review suggestion (finalize)
\* runs after the image check
C9_FinalizeAfterImageCheck ==
  \A i \in Tasks :
    Returned(i) =>
      Position(stageLog[i], "general-suggestion")
        > Position(stageLog[i], "image-check")

\* C10: a step of one task writes only that task's verification and never the
\* shared lookup data, and equal products with equal recognition outcomes have
\* equal results wherever they are in the page
C10_ProductsIndependent ==
  [][/\ prefetchedGpcClasses' = prefetchedGpcClasses
     /\ products' = products
     /\ \A i \in Tasks :
          pc'[i] # pc[i] =>
            \A j \in Tasks \ {i} : verification'[j] = verification[j] /\ pc'[j] = pc[j]
     /\ \A i, j \in Tasks :
          (pc'[i] = "returned" /\ pc'[j] = "returned"
             /\ products[i] = products[j]
             /\ verification'[i].clarifaiVerification
                  = verification'[j].clarifaiVerification)
            => verification'[i] = verification'[j]]_vars

\* C10 witness: the same product twice in a page, both returned after their
\* calls completed in reverse order
C10_Witness ==
  \E i, j \in Tasks :
    /\ i < j
    /\ products[i] = products[j]
    /\ products[i].front_image
    /\ pc[i] = "awaiting"
    /\ pc[j] = "returned"

\* ----------------------------------------- the claims on the functions
\* the function under call has returned at least once
Ran(fn) == call.fn = fn /\ results # <<>>

\* a result without the field analysisMetadata.timestamp
WithoutTimestamp(r) ==
  IF call.fn = "analyzeProductImage"
  THEN [f \in DOMAIN r \ {"timestamp"} |-> r[f]]
  ELSE r

ConventionalHolds(unitData, dimension) ==
  LET code == ToUpper(unitData.unit_code)
      name == ToLower(unitData.unit_name)
  IN /\ code = "KG" \/ Includes(name, "kilogram") => dimension = "weight"
     /\ code = "L" \/ Includes(name, "liter") => dimension = "volume"
     /\ code = "PC" \/ Includes(name, "piece") => dimension = "quantity"
     /\ code = "M" \/ (Includes(name, "meter") /\ ~Includes(name, "square meter"))
          => dimension = "length"
     /\ code = "M2" \/ Includes(name, "square meter") => dimension = "area"

\* C12 as stated: inferUnitType returns weight for KG or kilogram, volume for L
\* or liter, quantity for PC or piece, length for M or meter, area for M2 or
\* square meter, in any case of the letters
C12_CanonicalDimension ==
  Ran("inferUnitType") /\ call.unitData.found =>
    \A i \in 1..Len(results) : ConventionalHolds(call.unitData, results[i])

\* C13 as stated: a label containing 'engine oil' with a non-empty unit code of
\* dimension weight is found incompatible
C13_EngineOilRejectsWeight ==
  /\ Ran("checkBrickUnitCompatibility")
  /\ Includes(ToLower(call.a), "engine oil")
  /\ call.b # ""
  /\ call.c = "weight"
  => \A i \in 1..Len(results) : ~results[i].compatible

\* C14 as stated: a label containing 'engine oil' with a unit of dimension volume
\* is found compatible, whatever else the label says and whatever the unit code
C14_EngineOilAcceptsVolume ==
  /\ Ran("checkBrickUnitCompatibility")
  /\ Includes(ToLower(call.a), "engine oil")
  /\ call.c = "volume"
  => \A i \in 1..Len(results) : results[i].compatible

\* a token is digits, the letter w, digits
IsGradeToken(t) ==
  /\ DigitsEnd(t, 1) > 1
  /\ CharAt(t, DigitsEnd(t, 1)) = "w"
  /\ DigitsEnd(t, 1) < Len(t)
  /\ DigitsEnd(t, DigitsEnd(t, 1) + 1) = Len(t) + 1

\* the text has a viscosity-grade token: a maximal run of word characters that
\* is a grade
HasViscosityToken(text) ==
  \E i \in 1..Len(text) : \E j \in i..Len(text) :
    /\ Boundary(text, i)
    /\ Boundary(text, j + 1)
    /\ \A k \in i..j : IsWordChar(CharAt(text, k))
    /\ IsGradeToken(SubSeq(text, i, j))

\* C15: a name, brand and label whose text has a viscosity-grade token are
\* classified oil_product with confidence of 90 or more and dimension volume,
\* whatever else matches the text
C15_ViscosityGradeIsOil ==
  Ran("classifyProductType")
  /\ HasViscosityToken(CombinedText(call.a, call.b, call.c))
  => \A i \in 1..Len(results) :
       /\ results[i].category = "oil_product"
       /\ results[i].confidence >= 90
       /\ results[i].expectedUnit = "volume"

\* C15 witness: a text with a grade that the laundry rule and the keywords of
\* the cleaning category match too was classified
C15_Witness ==
  /\ Ran("classifyProductType")
  /\ HasViscosityToken(CombinedText(call.a, call.b, call.c))
  /\ LaundryRule(CombinedText(call.a, call.b, call.c))
  /\ results[1].category = "oil_product"

\* C16 as stated: when the metadata implies a category and the content the file
\* name shows is in the category's incompatible list, the analyzer returns
\* isValid=false with a critical content_type_mismatch and a reduced confidence,
\* also when the file name has expected terms of the category
C16_IncompatibleContentIsInvalid ==
  Ran("analyzeProductImage")
  /\ ImageFacts(call.a, call.b, call.c, call.d).incompatible
  => \A i \in 1..Len(results) :
       /\ ~results[i].isValid
       /\ \E k \in 1..Len(results[i].issues) :
            results[i].issues[k] = ImageIssue("content_type_mismatch", "critical")
       /\ results[i].confidence <= 60

\* the penalty the claim gives a severity
StatedPenalty(severity) ==
  CASE severity = "critical" -> 40
    [] severity = "high" -> 25
    [] severity = "medium" -> 15
    [] severity = "low" -> 5
    [] OTHER -> 0

RECURSIVE StatedReduction(_)
StatedReduction(issues) ==
  IF issues = <<>> THEN 0
  ELSE StatedPenalty(Head(issues).severity) + StatedReduction(Tail(issues))

\* C17 as stated: with at least one issue the confidence is max(0, 100 - the sum
\* of 40, 25, 15, 5, 0 for critical, high, medium, low, info), every issue has
\* one of these five severities, and the confidence is within 0..100
C17_ConfidenceIsHundredMinusPenalties ==
  Ran("analyzeProductImage") =>
    \A i \in 1..Len(results) :
      /\ results[i].confidence \in 0..100
      /\ \A k \in 1..Len(results[i].issues) :
           results[i].issues[k].severity \in {"critical", "high", "medium", "low", "info"}
      /\ results[i].issues # <<>> =>
           results[i].confidence = Max(0, 100 - StatedReduction(results[i].issues))

\* ------------------------------------------- the claims on the lookups
\* C18 as stated: the product of scenario A is verified without a critical or
\* high issue, whether the recognition call matched or gave no result
C18_ScenarioAVerified ==
  \A i \in Tasks :
    /\ Returned(i)
    /\ rows # <<>>
    /\ rows[i] = ScenarioA
    /\ verification[i].clarifaiVerification \in {"match", "error"}
    => /\ verification[i].verificationStatus = "verified"
       /\ ~HasSevereIssue(verification[i])

HighIssue(issue) == issue.severity = "high"

\* C19 as stated: the product of scenario B is unverified with exactly one high
\* issue, of rule 'Unit Compatibility', recommending L, ML, LTR
C19_ScenarioBOneIssue ==
  \A i \in Tasks :
    /\ Returned(i)
    /\ rows # <<>>
    /\ rows[i] = ScenarioB
    /\ verification[i].clarifaiVerification = "match"
    => /\ verification[i].verificationStatus = "unverified"
       /\ Count(verification[i].issues, HighIssue) = 1
       /\ \A k \in 1..Len(verification[i].issues) :
            HighIssue(verification[i].issues[k])
              => verification[i].issues[k].rule = "Unit Compatibility"
       /\ RecommendedUnits(products[i].expectedUnit) = <<"L", "ML", "LTR">>

\* C20: whatever the lookups of brands, units and bricks do, the request is not
\* ended by the outer catch, a reference that was not found is null, and the
\* response is a success with the complete result of every product of the page
C20_LookupFailureIsAbsorbed ==
  /\ lookups.next # "aborted"
  /\ response.sent /\ rows # <<>> =>
       /\ response.success
       /\ DOMAIN response.data = 1..Len(rows)
       /\ \A i \in 1..Len(rows) :
            /\ i \notin lookups.unitsFound => products[i].unitType = "null"
            /\ response.data[i] =
                 VerifyProduct(products[i], prefetchedGpcClasses,
                               IF products[i].front_image
                               THEN response.data[i].clarifaiVerification
                               ELSE "match")

\* C20 witness: a page of two products was sent after the three lookups threw
C20_Witness ==
  /\ response.sent
  /\ Len(rows) >= 2
  /\ lookups.failed = {"brands", "units", "bricks"}

\* ---------------------------------------------- the claims on the behaviour
\* the positions of unitTypePatterns with a pattern in the name or the code
PatternSetsIn(unitName, unitCode) ==
  {k \in 1..Len(unitTypePatterns) :
     MatchesUnitPatterns(unitName, unitCode, unitTypePatterns[k].patterns)}

\* the dimension the order rate, volume, weight, quantity, length, area gives,
\* then the table of codes, then 'unknown'
FirstDimension(unitName, unitCode) ==
  IF PatternSetsIn(unitName, unitCode) # {}
  THEN unitTypePatterns[Least(PatternSetsIn(unitName, unitCode))].type
  ELSE IF unitCode \in DOMAIN unitCodeMap THEN unitCodeMap[unitCode]
  ELSE "unknown"

RulesOn(text) ==
  <<[holds |-> AutomotiveOilRule(text), category |-> "oil_product",
     confidence |-> 95, expectedUnit |-> "volume"],
    [holds |-> ViscosityRule(text), category |-> "oil_product",
     confidence |-> 98, expectedUnit |-> "volume"],
    [holds |-> ApiRule(text), category |-> "oil_product",
     confidence |-> 98, expectedUnit |-> "volume"],
    [holds |-> LaundryRule(text), category |-> "cleaning_product",
     confidence |-> 95, expectedUnit |-> "weight"],
    [holds |-> CookingOilRule(text), category |-> "food_product",
     confidence |-> 90, expectedUnit |-> "volume"]>>

RulesHolding(text) == {k \in 1..5 : RulesOn(text)[k].holds}
FirstRule(text) == RulesOn(text)[Least(RulesHolding(text))]
CallText == CombinedText(call.a, call.b, call.c)

\* C22: when a contextual rule holds for the text, classifyProductType returns
\* the category, the confidence times 100 and the expected dimension of the first
\* such rule with detectionMethod 'contextual_rule', whatever the scores are
C22_FirstContextualRuleDecides ==
  Ran("classifyProductType") /\ RulesHolding(CallText) # {} =>
    \A i \in 1..Len(results) :
      /\ results[i].category = FirstRule(CallText).category
      /\ results[i].confidence = FirstRule(CallText).confidence
      /\ results[i].expectedUnit = FirstRule(CallText).expectedUnit
      /\ results[i].detectionMethod = "contextual_rule"

\* C22 witness: a text was classified by a rule after the first, and the scores
\* alone would have named another category
C22_Witness ==
  /\ Ran("classifyProductType")
  /\ RulesHolding(CallText) # {}
  /\ Least(RulesHolding(CallText)) > 1
  /\ ScoredResult(CallText, ToLower(call.a)).category \notin {"none", results[1].category}

\* the categories of the n-gram phrases that occur in a text
MatchedNgramCategories(text) ==
  {classifierNgrams[k].category :
     k \in {j \in 1..Len(classifierNgrams) : Includes(text, classifierNgrams[j].ngram)}}

\* C23 as stated: when no contextual rule holds and an n-gram phrase occurs in
\* the text, the category returned is the category of a phrase that occurs;
\* keywords of another category do not outvote it
C23_NgramBeforeKeywords ==
  /\ Ran("classifyProductType")
  /\ RulesHolding(CallText) = {}
  /\ MatchedNgramCategories(CallText) # {}
  => \A i \in 1..Len(results) : results[i].category \in MatchedNgramCategories(CallText)

\* C24 as stated: when no contextual rule holds and the product name has 'wash'
\* with 'powder', 'detergent' or 'soap', the category is cleaning_product
\* whatever the other scores are, and the expected dimension is weight when the
\* name has 'powder' and volume otherwise
C24_WashingOverrideForcesCleaning ==
  /\ Ran("classifyProductType")
  /\ RulesHolding(CallText) = {}
  /\ WashingSpecialCase(ToLower(call.a))
  => \A i \in 1..Len(results) :
       /\ results[i].category = "cleaning_product"
       /\ results[i].expectedUnit =
            IF Includes(ToLower(call.a), "powder") THEN "weight" ELSE "volume"

\* a text has one of the automotive-oil signatures: one of the words engine,
\* motor, oil, lubricant, fluid, a viscosity grade, or an API S-category token
OilSignature(text) ==
  \/ HasWord(text, {"engine", "motor", "oil", "lubricant", "fluid"})
  \/ HasViscosityGrade(text)
  \/ HasApiServiceWord(text)

\* the program resolves a unit code to a dimension: parseUnit from the code
\* alone, or inferUnitType from a unit row with the code
CodeHasDimension(unitCode, dimension) ==
  \/ UnitTypeOfCode(ToUpper(unitCode)) = dimension
  \/ inferUnitType(UnitData(unitCode, "")) = dimension

\* C25 as stated: a non-empty label with an automotive-oil signature and a
\* non-empty unit code of dimension rate, length or area are found incompatible,
\* whatever the detection steps produced
C25_OilSignatureProhibitsRateLengthArea ==
  /\ Ran("checkBrickUnitCompatibility")
  /\ call.a # ""
  /\ OilSignature(ToLower(call.a))
  /\ call.b # ""
  /\ call.c \in {"rate", "length", "area"}
  /\ CodeHasDimension(call.b, call.c)
  => \A i \in 1..Len(results) : ~results[i].compatible

\* C26 as stated: when neither the category step nor an industry rule rejected
\* the unit, and the literal code does not match the pattern of its claimed
\* dimension, the checker returns compatible=false by 'unit-format', also for a
\* code that matches the pattern of no dimension
C26_WrongFormatIsRejected ==
  /\ Ran("checkBrickUnitCompatibility")
  /\ call.a # "" /\ call.b # ""
  /\ ~CategoryMismatch(CheckerDescription(call.a), call.c)
  /\ ~IndustryRuleViolated(CheckerDescription(call.a), call.c)
  /\ call.c \in DOMAIN unitValidationPatterns
  /\ ToLower(call.b) \notin unitValidationPatterns[call.c]
  => \A i \in 1..Len(results) :
       results[i] = [compatible |-> FALSE, by |-> "unit-format"]

\* the dimension parseUnit resolves for the unit of a row: from the unit row the
\* lookup found, or from the code
ResolvedDimension(row, found) ==
  parseUnit(row.unit, IF found THEN UnitRow(row.unit) ELSE NoUnitData).type

\* the verdict of the checker on the label and unit of each row
VerdictOf ==
  [r \in LookupRows, found \in BOOLEAN |->
     checkBrickUnitCompatibility(r.gpc, r.unit, ResolvedDimension(r, found))]
CheckerVerdict(i) == VerdictOf[rows[i], i \in lookups.unitsFound]

CompatibilityIssue(issue) == issue = Issue("GPC-Unit Compatibility", "high")
CompatibilitySuggestion(s) == s = Suggestion("unit", "High", "incompatible_unit")

ClassifiedOf ==
  [r \in LookupRows |->
     classifyProductType(r.productnameenglish, r.BrandName,
                         IF parseBrickDescription(r.gpc) # ""
                         THEN ToLower(parseBrickDescription(r.gpc)) ELSE r.gpc)]

\* the dimension of the unit of each row, with and without its unit row
DimensionOf ==
  [r \in LookupRows, found \in BOOLEAN |-> ResolvedDimension(r, found)]

UnitCategoryIssue(issue) == issue = Issue("Unit Compatibility", "high")
UnitCategorySuggestion(s) == s = Suggestion("unit", "High", "recommended_units")

\* C28 as stated: when the classifier gives an expected dimension and the
\* dimension of the product's unit differs from it, the result has a high 'Unit
\* Compatibility' issue and a suggestion with recommended unit codes, also when
\* the bulk lookup did not find the unit
C28_UnitCategoryMismatchReported ==
  \A i \in Tasks :
    /\ Returned(i)
    /\ rows # <<>>
    /\ rows[i].unit # ""
    /\ ClassifiedOf[rows[i]].expectedUnit # "none"
    /\ DimensionOf[rows[i], i \in lookups.unitsFound] # ClassifiedOf[rows[i]].expectedUnit
    => /\ Count(verification[i].issues, UnitCategoryIssue) >= 1
       /\ Count(verification[i].aiSuggestions, UnitCategorySuggestion) >= 1
       /\ RecommendedUnits(ClassifiedOf[rows[i]].expectedUnit) # <<>>

\* C29 as stated: the checker splits a label as parseBrick does: the description
\* it analyses is the lower-case description of parseBrick, and the code parts
\* are equal too
C29_CheckerSplitsAsParseBrick ==
  Ran("checkBrickUnitCompatibility") /\ call.a # "" /\ call.b # "" =>
    /\ CheckerDescription(call.a) = ToLower(parseBrickDescription(call.a))
    /\ CheckerCode(call.a) = ToLower(parseBrickCode(call.a))

EnhancementTip(s) == s.field = "enhancementTip"

\* C30 as stated: a suggestion with field 'enhancementTip' is only in results
\* whose final status is 'verified'; a result that ends unverified, also one the
\* image checks made unverified after the tips were added, has none
C30_TipsOnlyWhenVerified ==
  \A i \in Tasks :
    Returned(i) /\ verification[i].verificationStatus = "unverified"
      => Count(verification[i].aiSuggestions, EnhancementTip) = 0

====
